---- MODULE Spec2Model ----
(***************************************************************************)
(* A model of librdp (src/rdp.c): two endpoints, each one rdpSocket with   *)
(* its connection list, exchanging datagrams over an unreliable network.   *)
(* Every handler of the API (rdpConnCreate, rdpConnect, rdpWriteVec,       *)
(* rdpConnClose, rdpReadPoll, rdpSocketIntervalAction) is one action; the  *)
(* static helpers are operators on connection records.                     *)
(*                                                                         *)
(* Payload bytes are identified by their position in the writer's stream:  *)
(* a payload is a sequence of chunks <<from, len>>, so that a delivered    *)
(* stream can be compared with the written one position by position.       *)
(***************************************************************************)
EXTENDS Integers, Sequences, FiniteSets, TLC

VARIABLES
  now,        \* the wall clock mstime() reads, in milliseconds
  sock,       \* sock[e]: the rdpSocket of endpoint e (mstime, lastCheck, nextCheckTimeout)
  conns,      \* conns[e]: the list rdpSocket.conns, head first, of connection records
  fresh,      \* fresh[e]: connections made by rdpConnCreate and not yet connected
  net,        \* the network: the set of datagrams ever sent when it is lossy (one
              \* may arrive never, late or many times), the FIFO of datagrams in
              \* flight when it is reliable
  reliable,   \* whether the network delivers each datagram exactly once, in order
  aborted,    \* aborted[e]: the assertion that stopped the process of e, or ""
  written,    \* written[k]: number of bytes rdpWriteVec accepted on connection k
  delivered,  \* delivered[k]: the payload chunks rdpReadPoll returned for connection k
  eofs,       \* eofs[k]: number of DATA events of length 0 returned for connection k
  nconn       \* number of connection objects made so far

vars == <<now, sock, conns, fresh, net, reliable, aborted, written, delivered,
          eofs, nconn>>

----------------------------------------------------------------------------
(* Program constants (src/rdp.c) *)

RDP_QUEUE_SIZE_MAX == 16384
RDP_BUFFER_SIZE_MAX == 16777216
RDP_WINDOW_SIZE_MAX == RDP_BUFFER_SIZE_MAX
RDP_WINDOW_SIZE_DEFAULT == RDP_BUFFER_SIZE_MAX \div 4
RDP_WINDOW_SHRINK_FACTOR == 2
RDP_WINDOW_EXPAND_FACTOR == 2
RDP_MAX_CONNS_PER_RDPSOCKET == 1024
RDP_RETRANSMIT_TIMEOUT_MIN == 200
RDP_RETRANSMIT_TIMEOUT_MAX == 1000
RDP_RETRANSMIT_TIMEOUT_DEFAULT == 500
RDP_KEEPALIVE_INTERVAL == 29000
RDP_WAIT_SYN_RECV == 10000
RDP_WAIT_FIN_SENT == 10000
RDP_ACK_NR_RECV_BEHIND_ALLOWED == 10
SIXTEEN_MASK == 65535
UDP_IPV4_MTU == 1500 - 20 - 8 - 24 - 8 - 2 - 36
PacketHeaderSize == 12
RbufferInitSize == 64

(* rdp.h is not among the source files: the three bounds of the tick's     *)
(* period are taken as 500, 50 and 1000 ms.                                *)
RDP_SOCKET_CHECK_TIMEOUT_DEFAULT == 500
RDP_SOCKET_CHECK_TIMEOUT_MIN == 50
RDP_SOCKET_CHECK_TIMEOUT_MAX == 1000

getMaxPacketPayloadSize == UDP_IPV4_MTU - PacketHeaderSize

CS_UNINITIALIZED == "CS_UNINITIALIZED"
CS_SYN_SENT == "CS_SYN_SENT"
CS_SYN_RECV == "CS_SYN_RECV"
CS_CONNECTED == "CS_CONNECTED"
CS_CONNECTED_FULL == "CS_CONNECTED_FULL"
CS_FIN_SENT == "CS_FIN_SENT"
CS_DESTROY == "CS_DESTROY"

ST_DATA == "ST_DATA"
ST_FIN == "ST_FIN"
ST_STATE == "ST_STATE"
ST_SYN == "ST_SYN"

\* The null pointer
NULL == [null |-> TRUE]

----------------------------------------------------------------------------
(* Machine arithmetic *)

(* The checker's integers are 32-bit signed.  A 16-bit or 8-bit value is   *)
(* reduced with %.  A uint32_t or uint64_t that is at most 2^31 - 1 is the *)
(* integer itself; U32 of any other value overflows and stops the check     *)
(* instead of yielding a wrong number.  The values that do wrap            *)
(* (retransmitTimeout, retransmitTicker, size_t differences) are wide      *)
(* numbers, see below.                                                     *)
\* A local variable of a function: v is computed once, then F reads it.
Local(v, F(_)) == F(v)

TwoTo16 == 65536

U8(x) == x % 256
U16(x) == x % TwoTo16
U32(x) == IF x >= 0 THEN x ELSE ((x + 2147483647) + 2147483647) + 2
S16(x) == IF U16(x) >= 32768 THEN U16(x) - TwoTo16 ELSE U16(x)
Abs(x) == IF x < 0 THEN -x ELSE x
\* C's integer division truncates toward zero.
CDiv(a, b) == IF a >= 0 THEN a \div b ELSE -((-a) \div b)

(* A wide number [c2, c1, c0] is c2 * 2^64 + c1 * 2^32 + c0, with c0 and   *)
(* c1 of magnitude below 2^31, so that the order is the lexicographic one.  *)
WOf(x) == [c2 |-> 0, c1 |-> 0, c0 |-> x]
WAdd(a, b) == [c2 |-> a.c2 + b.c2, c1 |-> a.c1 + b.c1, c0 |-> a.c0 + b.c0]
WSub(a, b) == [c2 |-> a.c2 - b.c2, c1 |-> a.c1 - b.c1, c0 |-> a.c0 - b.c0]
WLess(a, b) ==
  \/ a.c2 < b.c2
  \/ a.c2 = b.c2 /\ a.c1 < b.c1
  \/ a.c2 = b.c2 /\ a.c1 = b.c1 /\ a.c0 < b.c0
\* Conversion to uint32_t and to uint64_t.
WU32(a) == [c2 |-> 0, c1 |-> IF a.c0 < 0 THEN 1 ELSE 0, c0 |-> a.c0]
WU64(a) ==
  [c2 |-> IF WLess([a EXCEPT !.c2 = 0], WOf(0)) THEN 1 ELSE 0,
   c1 |-> a.c1, c0 |-> a.c0]

max(a, b) == IF a < b THEN b ELSE a
min(a, b) == IF a < b THEN a ELSE b

sixteenAfter(a, b) == S16(S16(a) - S16(b)) < 0

\* A variant of limitedRetransmitTimeout without the upper limit.
limitedRetransmitTimeoutUncapped(t) ==
  IF t > 0 THEN max(RDP_RETRANSMIT_TIMEOUT_MIN, t)
           ELSE RDP_RETRANSMIT_TIMEOUT_DEFAULT

limitedRetransmitTimeout(t) ==
  IF t > 0
    THEN min(RDP_RETRANSMIT_TIMEOUT_MAX, max(RDP_RETRANSMIT_TIMEOUT_MIN, t))
    ELSE RDP_RETRANSMIT_TIMEOUT_DEFAULT

\* A variant of limitedWindow without the upper limit.
limitedWindowUncapped(t) ==
  IF t > 0 THEN max(getMaxPacketPayloadSize, t) ELSE RDP_WINDOW_SIZE_DEFAULT

limitedWindow(t) ==
  IF t > 0
    THEN min(RDP_WINDOW_SIZE_MAX, max(getMaxPacketPayloadSize, t))
    ELSE RDP_WINDOW_SIZE_DEFAULT

----------------------------------------------------------------------------
(* Payloads: sequences of chunks <<w, from, len>>, the len bytes from      *)
(* position from on of the stream written on connection w                  *)

NoData == <<>>

RECURSIVE DataSize(_)
DataSize(d) == IF d = <<>> THEN 0 ELSE d[1][3] + DataSize(Tail(d))

\* d followed by the chunk ch; adjacent chunks of a stream are merged.
DataCat(d, ch) ==
  IF ch[3] = 0 THEN d
  ELSE IF d # <<>> /\ d[Len(d)][1] = ch[1]
            /\ d[Len(d)][2] + d[Len(d)][3] = ch[2]
    THEN [d EXCEPT ![Len(d)] = <<ch[1], d[Len(d)][2], d[Len(d)][3] + ch[3]>>]
    ELSE Append(d, ch)

RECURSIVE DataJoin(_, _)
DataJoin(d, e) == IF e = <<>> THEN d ELSE DataJoin(DataCat(d, e[1]), Tail(e))

\* The first n bytes of d.
RECURSIVE DataTake(_, _)
DataTake(d, n) ==
  IF n <= 0 \/ d = <<>> THEN <<>>
  ELSE IF d[1][3] <= n THEN <<d[1]>> \o DataTake(Tail(d), n - d[1][3])
  ELSE << <<d[1][1], d[1][2], n>> >>

----------------------------------------------------------------------------
(* Ring buffer (struct rbuffer): elements holds the non-NULL slots only,   *)
(* keyed by their index i & mask.                                          *)

EmptyElements == [k \in {} |-> NULL]

rbufferInit == [mask |-> RbufferInitSize - 1, elements |-> EmptyElements]

rbufferGet(buf, i) ==
  IF (i % (buf.mask + 1)) \in DOMAIN buf.elements
    THEN buf.elements[i % (buf.mask + 1)]
    ELSE NULL

rbufferPut(buf, i, data) ==
  LET k == i % (buf.mask + 1) IN
  [buf EXCEPT !.elements =
     IF data = NULL
       THEN [j \in (DOMAIN buf.elements) \ {k} |-> buf.elements[j]]
       ELSE [j \in (DOMAIN buf.elements) \cup {k} |->
               IF j = k THEN data ELSE buf.elements[j]]]

RECURSIVE GrownSize(_, _)
GrownSize(size, index) ==
  IF index >= size * 2 THEN GrownSize(size * 2, index) ELSE size * 2

rbufferGrow(buf, item, index) ==
  LET size == GrownSize(buf.mask + 1, index)
      olds == {i \in 0 .. buf.mask : rbufferGet(buf, item - index + i) # NULL}
      at(k) == CHOOSE i \in olds : (item - index + i) % size = k
  IN [mask |-> size - 1,
      elements |-> [k \in {(item - index + i) % size : i \in olds} |->
                      rbufferGet(buf, item - index + at(k))]]

rbufferEnsureSize(buf, item, index) ==
  IF index > buf.mask THEN rbufferGrow(buf, item, index) ELSE buf

----------------------------------------------------------------------------
(* Connection records (struct rdpConn) and send slots (struct packetWrap) *)

\* rdpConnCreate: a connection of socket e whose seqnr is the value r that
\* rand() gave; id stands for the address of the object malloc returned.
rdpConnCreate(e, r, id) ==
  [id |-> id, sock |-> e, state |-> CS_UNINITIALIZED,
   addr |-> "", addrlen |-> 0,
   lastReceivedPacket |-> 0, lastSentPacket |-> 0,
   idSeed |-> 0, recvId |-> 0, sendId |-> 0,
   outOfOrderCnt |-> 0, seqnr |-> U16(r), acknr |-> 0, eofseqnr |-> 0,
   receivedFinCompleted |-> 0, receivedFin |-> 0, needSendAck |-> 0,
   queue |-> 0, flightWindow |-> 0,
   flightWindowLimit |-> limitedWindow(0),
   recvWindowPeer |-> limitedWindow(RDP_WINDOW_SIZE_MAX),
   recvWindowSelf |-> limitedWindow(RDP_WINDOW_SIZE_MAX),
   rtt |-> 0, rttVar |-> 0,
   nextRetransmitTimeout |-> limitedRetransmitTimeout(0),
   retransmitTimeout |-> WOf(0), retransmitTicker |-> WOf(0),
   oldestResent |-> -1,
   inbuf |-> rbufferInit, outbuf |-> rbufferInit,
   \* not fields of the struct: the assertion that failed on it, and how
   \* many times rdpReadPoll reported RDP_CONNECTED, RDP_ACCEPT and
   \* RDP_POLLOUT for it
   fail |-> "", nConnected |-> 0, nAccept |-> 0, nPollout |-> 0]

\* An assertion of the source failed: the process aborts there.
Failed(c, what) == IF c.fail = "" THEN [c EXCEPT !.fail = what] ELSE c

NoSAck == [len |-> 0, size |-> 0, bits |-> {}]

\* The datagram a send slot is put on the wire as (pw->data).
PacketOf(c, pw) ==
  [src |-> c.sock, dst |-> c.addr, type |-> pw.type, reserve |-> 0,
   connId |-> pw.connId, window |-> pw.window, seqnr |-> pw.seqnr,
   acknr |-> pw.acknr, sack |-> NoSAck, data |-> pw.data]

\* Bytes of a datagram: header, extension record, payload.
PacketLen(p) ==
  PacketHeaderSize + (IF p.reserve # 0 THEN 2 + p.sack.size ELSE 0)
    + DataSize(p.data)

sendData(c, mstime) == [c EXCEPT !.lastSentPacket = mstime]

\* A variant of sendPacketWrap that sends the slot and counts none of its
\* payload in the flight window.
sendPacketWrapUncounted(r, i, mstime) ==
  LET c == r.c
      pw == rbufferGet(c.outbuf, i)
      pw2 == [pw EXCEPT !.needResend = 0, !.acknr = c.acknr,
                         !.sentTime = mstime, !.transmissions = @ + 1]
      c2 == [c EXCEPT !.outbuf = rbufferPut(@, i, pw2)]
  IN [r EXCEPT !.c = sendData(c2, mstime),
               !.out = Append(@, PacketOf(c2, pw2))]

\* r is [c, out]: the connection and the datagrams sent so far by the call.
sendPacketWrap(r, i, mstime) ==
  LET c == r.c
      pw == rbufferGet(c.outbuf, i)
  IN IF ~(pw.transmissions = 0 \/ pw.needResend = 1)
       THEN [r EXCEPT !.c = Failed(c, "sendPacketWrap")]
       ELSE
         LET pw2 == [pw EXCEPT !.needResend = 0, !.acknr = c.acknr,
                                !.sentTime = mstime,
                                !.transmissions =
                                  IF @ = 2147483647 THEN 0 ELSE @ + 1]
             c2 == [c EXCEPT !.flightWindow = U32(@ + pw.payload),
                             !.outbuf = rbufferPut(@, i, pw2)]
         IN [r EXCEPT !.c = sendData(c2, mstime),
                      !.out = Append(@, PacketOf(c2, pw2))]

\* A variant of rdpConnFlightWindowFull for which the window is never full.
rdpConnFlightWindowNeverFull(c) == FALSE

rdpConnFlightWindowFull(c) ==
  U32(c.flightWindow + getMaxPacketPayloadSize)
    > min(c.flightWindowLimit, c.recvWindowPeer)

\* A variant of ackPacket that frees the slot and leaves the flight window
\* as it was.
ackPacketKeepsFlight(c, i, mstime) ==
  IF rbufferGet(c.outbuf, i) = NULL THEN c
  ELSE [c EXCEPT !.outbuf = rbufferPut(@, i, NULL)]

ackPacket(c, i, mstime) ==
  Local(rbufferGet(c.outbuf, i), LAMBDA pw :
  IF pw = NULL THEN c
  ELSE IF pw.transmissions = 0 THEN c
  ELSE
    Local(U32(mstime - pw.sentTime), LAMBDA packetRtt :
    Local(IF c.rtt = 0
            THEN packetRtt \div 2
            ELSE U32(c.rttVar + CDiv(Abs(c.rtt - packetRtt) - c.rttVar, 4)),
          LAMBDA var1 :
    Local(IF c.rtt = 0
            THEN packetRtt
            ELSE U32(c.rtt + CDiv(packetRtt - c.rtt, 8)),
          LAMBDA rtt1 :
    Local(IF pw.transmissions = 1
            THEN [c EXCEPT !.outbuf = rbufferPut(@, i, NULL),
                           !.rtt = rtt1, !.rttVar = var1,
                           !.nextRetransmitTimeout =
                              limitedRetransmitTimeout(U32(rtt1 + var1 * 4))]
            ELSE [c EXCEPT !.outbuf = rbufferPut(@, i, NULL)],
          LAMBDA c2 :
      IF pw.needResend = 0
        THEN IF c2.flightWindow >= pw.payload
               THEN [c2 EXCEPT !.flightWindow = @ - pw.payload]
               ELSE Failed(c2, "ackPacket:flightWindow")
        ELSE c2)))))

\* sackSize of sendAck: a multiple of 4, at least 4.
SAckSize(c) ==
  (c.outOfOrderCnt \div 8 + 1 + 3) - ((c.outOfOrderCnt \div 8 + 1 + 3) % 4)

\* A variant of the mask loop that starts at the slot of acknr + 1.
RECURSIVE SAckMaskFromNext(_, _, _, _)
SAckMaskFromNext(c, size, group, len) ==
  IF ~(group < size \div 4 /\ WLess(WOf(0), len)) THEN {}
  ELSE {group * 32 + i :
          i \in {j \in 0 .. ((IF WLess(len, WOf(32)) THEN len.c0 ELSE 32) - 1) :
                   rbufferGet(c.inbuf, c.acknr + j + 1 + group * 32) # NULL}}
       \cup SAckMaskFromNext(c, size, group + 1, WU64(WSub(len, WOf(32))))

\* The mask loop of sendAck; len is a size_t, held as a wide number.
RECURSIVE SAckMask(_, _, _, _)
SAckMask(c, size, group, len) ==
  IF ~(group < size \div 4 /\ WLess(WOf(0), len)) THEN {}
  ELSE {group * 32 + i :
          i \in {j \in 0 .. ((IF WLess(len, WOf(32)) THEN len.c0 ELSE 32) - 1) :
                   rbufferGet(c.inbuf, c.acknr + j + 2 + group * 32) # NULL}}
       \cup SAckMask(c, size, group + 1, WU64(WSub(len, WOf(32))))

sendAck(r, mstime) ==
  LET c == r.c
      withSAck == c.outOfOrderCnt # 0 /\ c.state # CS_SYN_RECV
                    /\ c.receivedFinCompleted = 0
      size == SAckSize(c)
      sack == IF withSAck
                THEN [len |-> U8(size), size |-> size,
                      bits |-> SAckMask(c, size, 0,
                                       WOf(min(size * 8, c.inbuf.mask)))]
                ELSE NoSAck
      p == [src |-> c.sock, dst |-> c.addr, type |-> ST_STATE,
            reserve |-> IF withSAck THEN 1 ELSE 0,
            connId |-> c.sendId, window |-> c.recvWindowSelf,
            seqnr |-> c.seqnr, acknr |-> c.acknr, sack |-> sack,
            data |-> NoData]
  IN IF withSAck /\ rbufferGet(c.inbuf, c.acknr + 1) # NULL
       THEN [r EXCEPT !.c = Failed(c, "sendAck:acknr+1")]
       ELSE [r EXCEPT !.c = [sendData(c, mstime) EXCEPT !.needSendAck = 0],
                      !.out = Append(@, p)]

\* The slot at offset k of the queue of c is one rdpConnFlushPackets sends:
\* it was never transmitted, or is marked for a retransmission.
ToFlush(c, k) ==
  Local(rbufferGet(c.outbuf, U16(c.seqnr - c.queue + k)), LAMBDA pw :
    pw # NULL /\ ~(pw.transmissions > 0 /\ pw.needResend = 0))

\* The loop of rdpConnFlushPackets from offset k of the queue on, stepping
\* over the slots it passes by; ret is -1 when the flight window filled up.
RECURSIVE FlushFrom(_, _, _)
FlushFrom(r, k, mstime) ==
  Local({j \in k .. (r.c.queue - 1) : ToFlush(r.c, j)}, LAMBDA todo :
    IF todo = {} \/ r.c.fail # "" THEN [r EXCEPT !.ret = 0]
    ELSE IF rdpConnFlightWindowFull(r.c) THEN [r EXCEPT !.ret = -1]
    ELSE Local(CHOOSE j \in todo : \A m \in todo : j <= m, LAMBDA j :
           FlushFrom(sendPacketWrap(r, U16(r.c.seqnr - r.c.queue + j), mstime),
                     j + 1, mstime)))

\* r is [c, out, ret].
rdpConnFlushPackets(r, mstime) == FlushFrom(r, 0, mstime)

\* The do-while of buildSendPacket; from is the stream position of the next
\* byte of the vec.
RECURSIVE BuildLoop(_, _, _, _)
BuildLoop(c, payload, type, from) ==
  IF ~(c.queue < RDP_QUEUE_SIZE_MAX) THEN Failed(c, "buildSendPacket:queue")
  ELSE
    Local(IF c.queue > 0 THEN rbufferGet(c.outbuf, c.seqnr - 1) ELSE NULL,
          LAMBDA prev :
    Local(/\ payload # 0
          /\ prev # NULL
          /\ prev.transmissions = 0
          /\ prev.payload < getMaxPacketPayloadSize,
          LAMBDA extend :
    Local(IF extend
            THEN min(payload + prev.payload, getMaxPacketPayloadSize)
                   - prev.payload
            ELSE payload,
          LAMBDA roundPayload :
    Local([(IF extend THEN prev
            ELSE [payload |-> 0, sentTime |-> 0, transmissions |-> 0,
                  needResend |-> 0, type |-> type, connId |-> c.sendId,
                  window |-> c.recvWindowSelf, seqnr |-> 0,
                  acknr |-> c.acknr, data |-> NoData])
             EXCEPT !.payload = @ + roundPayload,
                    !.data = DataCat(@, <<c.id, from, roundPayload>>),
                    !.type = type, !.connId = c.sendId,
                    !.window = c.recvWindowSelf, !.acknr = c.acknr],
          LAMBDA pw1 :
      IF roundPayload # 0 /\ type # ST_DATA
        THEN Failed(c, "buildSendPacket:type")
        ELSE
          Local(IF extend
                  THEN [c EXCEPT !.outbuf = rbufferPut(@, c.seqnr - 1, pw1)]
                  ELSE [c EXCEPT
                          !.outbuf = rbufferPut(
                                       rbufferEnsureSize(@, c.seqnr, c.queue),
                                       c.seqnr,
                                       [pw1 EXCEPT !.seqnr = c.seqnr]),
                          !.seqnr = U16(@ + 1),
                          !.queue = U16(@ + 1)],
                LAMBDA c1 :
                  IF payload - roundPayload # 0
                    THEN BuildLoop(c1, payload - roundPayload, type,
                                   from + roundPayload)
                    ELSE c1)))))

buildSendPacket(c, payload, type, from) ==
  IF ~(c.queue > 0 \/ (c.queue = 0 /\ c.flightWindow = 0))
    THEN Failed(c, "buildSendPacket:flightWindow")
  ELSE IF ~(payload <= getMaxPacketPayloadSize)
    THEN Failed(c, "buildSendPacket:payload")
  ELSE BuildLoop(c, payload, type, from)

----------------------------------------------------------------------------
(* The API calls on one connection.  A call's result r carries the          *)
(* connection c, the datagrams out it sent, its return value ret and errno. *)

EINVAL == "EINVAL"
EAGAIN == "EAGAIN"
NoErrno == ""

Result(c, ret, errno) == [c |-> c, out |-> <<>>, ret |-> ret, errno |-> errno]

\* A variant of rdpConnInit that stores the two identifiers the other way
\* round.
rdpConnInitSwapped(c, addr, generateSeed, idSeed, recvId, sendId, mstime) ==
  [c EXCEPT !.addr = addr, !.addrlen = 1,
            !.idSeed = idSeed,
            !.recvId = IF generateSeed = 1 THEN U16(sendId + idSeed) ELSE sendId,
            !.sendId = IF generateSeed = 1 THEN U16(recvId + idSeed) ELSE recvId,
            !.lastReceivedPacket = mstime]

\* rdpConnInit without the list insertion, which the calling action does.
\* With generateSeed, idSeed is the value rand() & 0xffff ended on.
rdpConnInit(c, addr, generateSeed, idSeed, recvId, sendId, mstime) ==
  [c EXCEPT !.addr = addr, !.addrlen = 1,
            !.idSeed = idSeed,
            !.recvId = IF generateSeed = 1 THEN U16(recvId + idSeed) ELSE recvId,
            !.sendId = IF generateSeed = 1 THEN U16(sendId + idSeed) ELSE sendId,
            !.lastReceivedPacket = mstime]

\* A variant of rdpConnect that does not wait for the reply to its SYN.
rdpConnectAtOnce(c, addr, idSeed, mstime) ==
  LET c1 == [rdpConnInit(c, addr, 1, idSeed, 0, 1, mstime) EXCEPT
               !.state = CS_CONNECTED,
               !.retransmitTimeout = WOf(c.nextRetransmitTimeout),
               !.retransmitTicker =
                  WU64(WAdd(WOf(mstime), WOf(c.nextRetransmitTimeout)))]
      pw == [payload |-> 0, sentTime |-> 0, transmissions |-> 0,
             needResend |-> 0, type |-> ST_SYN, connId |-> c1.recvId,
             window |-> c1.recvWindowSelf, seqnr |-> c1.seqnr, acknr |-> 0,
             data |-> NoData]
      c2 == [c1 EXCEPT
               !.outbuf = rbufferPut(rbufferEnsureSize(@, c1.seqnr, c1.queue),
                                     c1.seqnr, pw),
               !.seqnr = U16(@ + 1),
               !.queue = U16(@ + 1)]
  IN sendPacketWrap(Result(c2, 0, NoErrno), c1.seqnr, mstime)

\* rdpConnect past its state check; mstime is the clock just read.
rdpConnect(c, addr, idSeed, mstime) ==
  LET c1 == [rdpConnInit(c, addr, 1, idSeed, 0, 1, mstime) EXCEPT
               !.state = CS_SYN_SENT,
               !.retransmitTimeout = WOf(c.nextRetransmitTimeout),
               !.retransmitTicker =
                  WU64(WAdd(WOf(mstime), WOf(c.nextRetransmitTimeout)))]
      pw == [payload |-> 0, sentTime |-> 0, transmissions |-> 0,
             needResend |-> 0, type |-> ST_SYN, connId |-> c1.recvId,
             window |-> c1.recvWindowSelf, seqnr |-> c1.seqnr, acknr |-> 0,
             data |-> NoData]
      c2 == [c1 EXCEPT
               !.outbuf = rbufferPut(rbufferEnsureSize(@, c1.seqnr, c1.queue),
                                     c1.seqnr, pw),
               !.seqnr = U16(@ + 1),
               !.queue = U16(@ + 1)]
  IN sendPacketWrap(Result(c2, 0, NoErrno), c1.seqnr, mstime)

\* The loop of rdpWriteVec: r.ret counts sent, total is what is left.
RECURSIVE WriteLoop(_, _, _, _)
WriteLoop(r, total, validSend, from) ==
  IF ~(r.c.queue < RDP_QUEUE_SIZE_MAX - 1) \/ r.c.fail # "" THEN r
  ELSE
    Local([r EXCEPT !.c = buildSendPacket(@, validSend, ST_DATA, from),
                    !.ret = @ + validSend],
          LAMBDA r1 :
            IF min(total - validSend, getMaxPacketPayloadSize) = 0 THEN r1
            ELSE WriteLoop(r1, total - validSend,
                           min(total - validSend, getMaxPacketPayloadSize),
                           from + validSend))

\* A variant of rdpWriteVec that tells no state from another.
rdpWriteVecOneErrno(c, total, from, smstime, clock) ==
  [c |-> c, out |-> <<>>, ret |-> -1, errno |-> EINVAL, mstime |-> smstime]

\* rdpWriteVec of total bytes whose first one is at stream position from.
\* smstime is the socket's clock snapshot, clock the value mstime() returns;
\* the result carries the snapshot the call leaves.
rdpWriteVec(c, total, from, smstime, clock) ==
  IF c.state \in {CS_UNINITIALIZED, CS_SYN_RECV, CS_DESTROY, CS_FIN_SENT}
    THEN [c |-> c, out |-> <<>>, ret |-> -1, errno |-> EINVAL,
          mstime |-> smstime]
  ELSE IF c.state \in {CS_SYN_SENT, CS_CONNECTED_FULL}
    THEN [c |-> c, out |-> <<>>, ret |-> -1, errno |-> EAGAIN,
          mstime |-> smstime]
  ELSE IF rdpConnFlightWindowFull(c)
    THEN [c |-> [c EXCEPT !.state = CS_CONNECTED_FULL], out |-> <<>>,
          ret |-> -1, errno |-> EAGAIN, mstime |-> smstime]
  ELSE
    Local(WriteLoop(Result(c, 0, NoErrno), total,
                    min(total, getMaxPacketPayloadSize), from),
          LAMBDA r1 :
    Local(rdpConnFlushPackets(r1, clock), LAMBDA r2 :
      LET sent == r1.ret
          left == total - r1.ret
      IN [c |-> IF r2.ret = -1 /\ r2.c.fail = ""
                  THEN [r2.c EXCEPT !.state = CS_CONNECTED_FULL]
                  ELSE r2.c,
          out |-> r2.out, mstime |-> clock,
          ret |-> IF sent = 0 THEN (IF left = 0 THEN 0 ELSE -1) ELSE sent,
          errno |-> IF sent = 0 /\ left # 0 THEN EAGAIN ELSE NoErrno]))

\* A variant of rdpConnClose that queues no FIN.
rdpConnCloseNoFin(c, smstime) ==
  IF c.state \in {CS_UNINITIALIZED, CS_SYN_RECV, CS_DESTROY, CS_FIN_SENT}
    THEN Result(c, -1, EINVAL)
    ELSE Result([c EXCEPT !.state = CS_FIN_SENT], 0, NoErrno)

\* rdpConnClose; it does not read the clock.
rdpConnClose(c, smstime) ==
  IF c.state \in {CS_UNINITIALIZED, CS_SYN_RECV, CS_DESTROY, CS_FIN_SENT}
    THEN Result(c, -1, EINVAL)
  ELSE IF c.state = CS_SYN_SENT
    THEN Result([c EXCEPT !.state = CS_DESTROY], 0, NoErrno)
  ELSE IF c.receivedFin = 1
    THEN Result([c EXCEPT !.state = CS_DESTROY], 0, NoErrno)
  ELSE
    Local(IF c.needSendAck = 1
            THEN sendAck(Result(c, 0, NoErrno), smstime)
            ELSE Result(c, 0, NoErrno),
          LAMBDA r1 :
    Local(IF r1.c.fail # "" THEN r1
          ELSE IF ~(r1.c.queue < RDP_QUEUE_SIZE_MAX)
            THEN [r1 EXCEPT !.c = Failed(@, "rdpConnClose:queue")]
            ELSE [r1 EXCEPT !.c = buildSendPacket(@, 0, ST_FIN, 0)],
          LAMBDA r2 :
    Local(IF r2.c.fail # "" THEN r2
          ELSE [rdpConnFlushPackets(r2, smstime) EXCEPT !.ret = 0],
          LAMBDA r3 :
      IF r3.c.fail # "" THEN r3
      ELSE [r3 EXCEPT !.c.state = CS_FIN_SENT])))

\* The loop of selectiveAck from offset down to -1; bits are the offsets
\* whose bit is set in mask.
\* A variant of the loop that takes every position of the mask range for
\* acknowledged, its bit set or not.
RECURSIVE SelectiveAckLoopAnyBit(_, _, _, _, _)
SelectiveAckLoopAnyBit(c, startSeqnr, bits, offset, mstime) ==
  IF offset < -1 \/ c.fail # "" THEN c
  ELSE
    Local(startSeqnr + offset, LAMBDA v :
    Local(rbufferGet(c.outbuf, v), LAMBDA pw :
      SelectiveAckLoopAnyBit(
        IF U16(c.seqnr - v - 1) >= U16(c.queue - 1) THEN c
        ELSE IF pw = NULL THEN c
        ELSE IF pw.transmissions = 0
          THEN Failed(c, "selectiveAck:transmissions")
        ELSE IF v % (c.outbuf.mask + 1)
                  = (c.seqnr - c.queue) % (c.outbuf.mask + 1)
          THEN Failed(c, "selectiveAck:oldest")
        ELSE ackPacket(c, U16(v), mstime),
        startSeqnr, bits, offset - 1, mstime)))

RECURSIVE SelectiveAckLoop(_, _, _, _, _)
SelectiveAckLoop(c, startSeqnr, bits, offset, mstime) ==
  IF offset < -1 \/ c.fail # "" THEN c
  ELSE
    Local(startSeqnr + offset, LAMBDA v :
    Local(rbufferGet(c.outbuf, v), LAMBDA pw :
      SelectiveAckLoop(
        IF U16(c.seqnr - v - 1) >= U16(c.queue - 1) THEN c
        ELSE IF pw = NULL THEN c
        ELSE IF pw.transmissions = 0
          THEN Failed(c, "selectiveAck:transmissions")
        ELSE IF ~(offset >= 0 /\ offset \in bits) THEN c
        ELSE IF v % (c.outbuf.mask + 1)
                  = (c.seqnr - c.queue) % (c.outbuf.mask + 1)
          THEN Failed(c, "selectiveAck:oldest")
        ELSE ackPacket(c, U16(v), mstime),
        startSeqnr, bits, offset - 1, mstime)))

selectiveAck(c, startSeqnr, bits, len, mstime) ==
  SelectiveAckLoop(c, startSeqnr, bits, len * 8 - 1, mstime)

----------------------------------------------------------------------------
(* rdpReadPoll *)

RDP_CONTINUE == "CONTINUE"
RDP_AGAIN == "AGAIN"
RDP_DATA == "DATA"
RDP_ACCEPT == "ACCEPT"
RDP_CONNECTED == "CONNECTED"
RDP_POLLOUT == "POLLOUT"
RDP_ERROR == "ERROR"

listEqualRdpConn(currentV, addr, recvId) ==
  currentV.recvId = recvId /\ currentV.addrlen = 1 /\ currentV.addr = addr

\* A variant of findRdpConnInRdpSocket that finds a node only by the
\* identifier seed of its connection.
findRdpConnBySeed(cs, addr, recvId) ==
  IF \E i \in 1 .. Len(cs) : cs[i].addr = addr /\ cs[i].idSeed = recvId
    THEN CHOOSE i \in 1 .. Len(cs) :
           /\ cs[i].addr = addr /\ cs[i].idSeed = recvId
           /\ \A j \in 1 .. (i - 1) :
                ~(cs[j].addr = addr /\ cs[j].idSeed = recvId)
    ELSE 0

\* Index of the first node of the list cs equal to (addr, recvId), or 0.
findRdpConnInRdpSocket(cs, addr, recvId) ==
  IF \E i \in 1 .. Len(cs) : listEqualRdpConn(cs[i], addr, recvId)
    THEN CHOOSE i \in 1 .. Len(cs) :
           /\ listEqualRdpConn(cs[i], addr, recvId)
           /\ \A j \in 1 .. (i - 1) : ~listEqualRdpConn(cs[j], addr, recvId)
    ELSE 0

\* What a poll hands back about one connection: the connection, what it
\* sent, the events, the return value and the payload copied to buf.
Polled(c, out, events, ret, data) ==
  [c |-> c, out |-> out, events |-> events, ret |-> ret, data |-> data]

\* The drain loop passes by connection c: it is not connected, or it has
\* neither the end of the stream nor the next packet in order to hand over.
DrainSkips(c) ==
  IF c.state # CS_CONNECTED /\ c.state # CS_CONNECTED_FULL THEN TRUE
  ELSE IF c.receivedFinCompleted = 0 /\ c.receivedFin = 1
            /\ c.eofseqnr = c.acknr
    THEN FALSE
  ELSE c.outOfOrderCnt = 0 \/ rbufferGet(c.inbuf, c.acknr + 1) = NULL

\* The drain loop over the list from node i on; hit tells whether it returned.
Drain(cs, i, len, mstime) ==
  IF \A j \in i .. Len(cs) : DrainSkips(cs[j]) THEN [hit |-> FALSE]
  ELSE
    LET k == CHOOSE j \in i .. Len(cs) :
               ~DrainSkips(cs[j]) /\ \A m \in i .. (j - 1) : DrainSkips(cs[m])
        c == cs[k]
        p == rbufferGet(c.inbuf, c.acknr + 1)
    IN IF c.receivedFinCompleted = 0 /\ c.receivedFin = 1
            /\ c.eofseqnr = c.acknr
         THEN Local(sendAck(Result([c EXCEPT !.receivedFinCompleted = 1],
                                   0, NoErrno), mstime),
                    LAMBDA r :
                      [hit |-> TRUE, i |-> k,
                       r |-> Polled([r.c EXCEPT !.outOfOrderCnt = 0], r.out,
                                    {RDP_DATA}, 0, NoData)])
       ELSE IF p.prefix > 0 /\ p.prefix > len
         THEN [hit |-> TRUE, i |-> k,
               r |-> Polled(c, <<>>, {RDP_ERROR}, -1, NoData)]
       ELSE [hit |-> TRUE, i |-> k,
             r |-> Polled([c EXCEPT
                             !.inbuf = rbufferPut(@, c.acknr + 1, NULL),
                             !.acknr = U16(@ + 1),
                             !.needSendAck = 1,
                             !.outOfOrderCnt = U16(@ - 1)],
                          <<>>,
                          IF p.prefix > 0 THEN {RDP_DATA} ELSE {RDP_CONTINUE},
                          IF p.prefix > 0 THEN p.prefix ELSE -1,
                          p.data)]

\* rdpContextAck over the list from node i on; r is [conns, out].
RECURSIVE ContextAckFrom(_, _, _)
ContextAckFrom(r, i, mstime) ==
  Local({j \in i .. Len(r.conns) : r.conns[j].needSendAck = 1}, LAMBDA todo :
    IF todo = {} THEN r
    ELSE Local(CHOOSE j \in todo : \A m \in todo : j <= m, LAMBDA j :
         Local(sendAck([c |-> r.conns[j], out |-> r.out], mstime), LAMBDA a :
           ContextAckFrom([conns |-> [r.conns EXCEPT ![j] = a.c],
                           out |-> a.out], j + 1, mstime))))

rdpContextAck(cs, mstime) ==
  ContextAckFrom([conns |-> cs, out |-> <<>>], 1, mstime)

\* A variant of the cumulative acknowledgement loop that frees the slots
\* and leaves queue as it was.
RECURSIVE AckLoopKeepsQueue(_, _, _)
AckLoopKeepsQueue(c, ackCnt, mstime) ==
  IF ackCnt = 0 THEN c
  ELSE AckLoopKeepsQueue(ackPacket(c, U16(c.seqnr - c.queue), mstime),
                         ackCnt - 1, mstime)

\* The cumulative acknowledgement loop.
RECURSIVE AckLoop(_, _, _)
AckLoop(c, ackCnt, mstime) ==
  IF ackCnt = 0 THEN c
  ELSE AckLoop([ackPacket(c, U16(c.seqnr - c.queue), mstime) EXCEPT
                  !.queue = U16(@ - 1)],
               ackCnt - 1, mstime)

\* A variant of the test on acknr that lets the acknowledgements of long
\* ago pass.
AckNrInvalidLateOnly(c, packnr) == sixteenAfter(c.seqnr - 1, packnr)

\* A ST_STATE, ST_DATA or ST_FIN datagram p, of which rawRead bytes arrived
\* in a buffer of len bytes, on its connection c (not in CS_DESTROY).
\* Steps, in the order of the source: the first one that returns decides.
AckNrInvalid(c, packnr) ==
  \/ sixteenAfter(c.seqnr - 1, packnr)
  \/ sixteenAfter(packnr,
                  c.seqnr - 1 - c.queue - RDP_ACK_NR_RECV_BEHIND_ALLOWED)

\* The extension records must lie within the bytes received.
ExtensionInvalid(p, rawRead) ==
  p.reserve # 0 /\ (rawRead - PacketHeaderSize - 2) < p.sack.len

\* Variants of the tests below: one leaves out the state the handshake
\* starts from, one never passes.
ConnectsAnyState(c, p) == p.type = ST_STATE

PollsOutNever(c) == FALSE

\* A variant of Accepts for which any packet completes the handshake of the
\* passive side.
AcceptsAnyType(c, p) == c.state = CS_SYN_RECV

\* The two tests of the connection handshake: the first data packet on a
\* passive connection, the first state packet on an active one.
Accepts(c, p) == p.type = ST_DATA /\ c.state = CS_SYN_RECV

Connects(c, p) == p.type = ST_STATE /\ c.state = CS_SYN_SENT

\* The test of the POLLOUT step, after the acknowledgements were applied.
PollsOut(c) == c.state = CS_CONNECTED_FULL /\ ~rdpConnFlightWindowFull(c)

\* From the handshake to the POLLOUT step.
AckStage(c, p, mstime) ==
  LET ackCnt0 == U16(p.acknr - (c.seqnr - c.queue) + 1)
      ackCnt == IF ackCnt0 > c.queue THEN 0 ELSE ackCnt0
      accept == Accepts(c, p)
      connected == Connects(c, p)
      ev2 == IF connected THEN {RDP_CONNECTED}
             ELSE IF accept THEN {RDP_ACCEPT} ELSE {RDP_CONTINUE}
  IN
  Local([c EXCEPT !.lastReceivedPacket = mstime,
                  !.recvWindowPeer = p.window,
                  !.state = IF accept \/ connected THEN CS_CONNECTED ELSE @],
        LAMBDA c2 :
  Local(IF c2.state = CS_FIN_SENT /\ c2.queue = ackCnt
          THEN [c2 EXCEPT !.state = CS_DESTROY] ELSE c2,
        LAMBDA c3 :
  Local(AckLoop(c3, ackCnt, mstime), LAMBDA c4 :
  Local(IF c4.fail = "" /\ c4.queue > 0
             /\ rbufferGet(c4.outbuf, c4.seqnr - c4.queue) = NULL
          THEN Failed(c4, "rdpReadPoll:oldest")
          ELSE c4,
        LAMBDA c5 :
  Local(IF c5.fail = "" /\ c5.queue > 0 /\ p.reserve = 1
          THEN selectiveAck(c5, p.acknr + 2, p.sack.bits, p.sack.len, mstime)
          ELSE c5,
        LAMBDA c6 :
  Local(c6.fail = "" /\ PollsOut(c6), LAMBDA pollout :
    [c |-> IF pollout THEN [c6 EXCEPT !.state = CS_CONNECTED] ELSE c6,
     events |-> IF pollout THEN ev2 \cup {RDP_POLLOUT} ELSE ev2]))))))

\* From the ST_STATE return to the end; seqCnt and payload were computed
\* before the stage above.
DataStage(a, p, seqCnt, payload, len) ==
  Local(a.c, LAMBDA c :
  Local(IF p.type = ST_FIN /\ c.receivedFin = 0
          THEN [c EXCEPT !.receivedFin = 1, !.eofseqnr = p.seqnr] ELSE c,
        LAMBDA cf :
  Local(DataTake(p.data, payload), LAMBDA data :
  Local(rbufferEnsureSize(cf.inbuf, p.seqnr + 1, seqCnt + 1), LAMBDA grown :
  LET fin == p.type = ST_FIN
  IN IF c.fail # "" THEN Polled(c, <<>>, a.events, -1, NoData)
     ELSE IF p.type = ST_STATE THEN Polled(c, <<>>, a.events, -1, NoData)
     ELSE IF c.state \notin {CS_CONNECTED, CS_CONNECTED_FULL, CS_FIN_SENT}
       THEN Polled(c, <<>>, a.events, -1, NoData)
     ELSE IF fin /\ c.state = CS_FIN_SENT
       THEN Polled([c EXCEPT !.state = CS_DESTROY], <<>>, a.events, -1, NoData)
     ELSE IF cf.state = CS_FIN_SENT
       THEN Polled(cf, <<>>, a.events, -1, NoData)
     ELSE IF seqCnt = 0
       THEN IF payload > 0 /\ payload > len
              THEN Polled(cf, <<>>, {RDP_ERROR}, -1, NoData)
              ELSE Polled([cf EXCEPT !.acknr = U16(@ + 1), !.needSendAck = 1],
                          <<>>,
                          IF payload > 0 THEN a.events \cup {RDP_DATA}
                                         ELSE a.events,
                          IF payload = 0 THEN -1 ELSE payload,
                          data)
     ELSE IF cf.receivedFin = 1 /\ p.seqnr > cf.eofseqnr
       THEN Polled(cf, <<>>, a.events, -1, NoData)
     ELSE IF rbufferGet(grown, p.seqnr) # NULL
       THEN Polled([cf EXCEPT !.inbuf = grown, !.needSendAck = 1],
                   <<>>, a.events, -1, NoData)
     ELSE IF p.seqnr % (grown.mask + 1) = (cf.acknr + 1) % (grown.mask + 1)
       THEN Polled(Failed(cf, "rdpReadPoll:inbuf"), <<>>, a.events, -1, NoData)
     ELSE Polled([cf EXCEPT
                    !.inbuf = rbufferPut(grown, p.seqnr,
                                [prefix |-> payload, data |-> data]),
                    !.outOfOrderCnt = U16(@ + 1),
                    !.needSendAck = 1],
                 <<>>, a.events, -1, NoData)))))

RecvOnConn(c, p, rawRead, len, mstime) ==
  LET payload == rawRead - PacketHeaderSize
      c1 == IF c.state = CS_SYN_SENT
              THEN [c EXCEPT !.acknr = U16(p.seqnr - 1)] ELSE c
      seqCnt == U16(p.seqnr - c1.acknr - 1)
  IN IF AckNrInvalid(c, p.acknr)
       THEN Polled(c, <<>>, {RDP_CONTINUE}, -1, NoData)
     ELSE IF ExtensionInvalid(p, rawRead)
       THEN Polled(Failed(c, "rdpReadPoll:extension"), <<>>, {RDP_CONTINUE},
                   -1, NoData)
     ELSE IF seqCnt >= RDP_QUEUE_SIZE_MAX
       THEN Polled(IF seqCnt >= (SIXTEEN_MASK + 1) - RDP_QUEUE_SIZE_MAX
                        /\ p.type # ST_STATE
                     THEN [c1 EXCEPT !.needSendAck = 1] ELSE c1,
                   <<>>, {RDP_CONTINUE}, -1, NoData)
     ELSE DataStage(AckStage(c1, p, mstime), p, seqCnt, payload, len)

\* The list with node i removed (listNodeDestroy).
listNodeDestroy(cs, i) ==
  [k \in 1 .. (Len(cs) - 1) |-> IF k < i THEN cs[k] ELSE cs[k + 1]]

listNodeAddHead(cs, c) == <<c>> \o cs

\* A result of rdpReadPoll on the socket: s is the rdpSocket record, conn
\* the index in conns of the connection handed back through *conn (0: NULL).
SockPolled(s, cs, conn, r) ==
  [s |-> s, conns |-> cs, conn |-> conn, out |-> r.out, events |-> r.events,
   ret |-> r.ret, data |-> r.data]

\* The ST_SYN branch; rnd is what rand() gives rdpConnCreate and id the
\* object it makes.
RecvSyn(e, s, cs, p, rnd, id) ==
  Local(findRdpConnInRdpSocket(cs, p.src, U16(p.connId + 1)), LAMBDA i :
  Local(IF i # 0 THEN cs[i]
        ELSE [rdpConnInit(rdpConnCreate(e, rnd, id), p.src, 0, p.connId,
                          U16(p.connId + 1), p.connId, s.mstime)
                EXCEPT !.state = CS_SYN_RECV, !.acknr = p.seqnr],
        LAMBDA c :
  Local(sendAck(Result([c EXCEPT
                          !.lastReceivedPacket = s.mstime,
                          !.retransmitTimeout = WOf(c.nextRetransmitTimeout),
                          !.retransmitTicker =
                             WU64(WAdd(WOf(s.mstime),
                                       WOf(c.nextRetransmitTimeout)))],
                       -1, NoErrno), s.mstime),
        LAMBDA r :
    IF i # 0 /\ cs[i].state # CS_SYN_RECV
      THEN SockPolled(s, cs, i, Polled(cs[i], <<>>, {RDP_CONTINUE}, -1, NoData))
    ELSE IF i = 0 /\ Len(cs) > RDP_MAX_CONNS_PER_RDPSOCKET
      THEN SockPolled(s, cs, 0, Polled(NULL, <<>>, {RDP_ERROR}, -1, NoData))
    ELSE IF i # 0
      THEN SockPolled(s, [cs EXCEPT ![i] = r.c], i,
                      Polled(r.c, r.out, {RDP_CONTINUE}, -1, NoData))
    ELSE SockPolled(s, listNodeAddHead(cs, r.c), 1,
                    Polled(r.c, r.out, {RDP_CONTINUE}, -1, NoData)))))

\* rdpReadPoll on endpoint e with a buffer of len > 0 bytes.  dg is the
\* datagram recvfrom returns, or NULL when it fails with EAGAIN; clock is
\* what mstime() returns.
rdpReadPoll(e, s, cs, len, dg, clock, rnd, id) ==
  LET s1 == [s EXCEPT !.mstime = clock]
      none == Polled(NULL, <<>>, {RDP_CONTINUE}, -1, NoData)
  IN
  Local(Drain(cs, 1, len, s.mstime), LAMBDA d :
    IF d.hit
      THEN SockPolled(s, [cs EXCEPT ![d.i] = d.r.c], d.i, d.r)
    ELSE IF dg = NULL
      THEN Local(rdpContextAck(cs, s.mstime), LAMBDA acks :
             SockPolled(s, acks.conns, 0,
                        Polled(NULL, acks.out, {RDP_AGAIN}, -1, NoData)))
    ELSE IF min(PacketLen(dg), len) < PacketHeaderSize
      THEN SockPolled(s, cs, 0, none)
    ELSE IF dg.type = ST_SYN
      THEN RecvSyn(e, s1, cs, dg, rnd, id)
    ELSE
      Local(findRdpConnInRdpSocket(cs, dg.src, dg.connId), LAMBDA i :
        IF i = 0
          THEN SockPolled(s1, cs, 0, none)
        ELSE IF cs[i].state = CS_DESTROY
          THEN SockPolled(s1, cs, i, none)
        ELSE Local(RecvOnConn(cs[i], dg, min(PacketLen(dg), len), len,
                              s1.mstime),
                   LAMBDA r : SockPolled(s1, [cs EXCEPT ![i] = r.c], i, r))))

----------------------------------------------------------------------------
(* The tick *)

rdpConnKeepAlive(r, mstime) ==
  LET a == sendAck([r EXCEPT !.c.acknr = U16(@ - 1)], mstime)
  IN [a EXCEPT !.c.acknr = U16(@ + 1)]

resizeWindow(c) ==
  LET oldest == c.seqnr - c.queue IN
  IF rbufferGet(c.outbuf, oldest) = NULL THEN Failed(c, "resizeWindow:pw")
  ELSE IF c.oldestResent = -1 THEN [c EXCEPT !.oldestResent = oldest]
  ELSE IF c.oldestResent = oldest
    THEN [c EXCEPT !.flightWindowLimit =
            limitedWindow(@ \div RDP_WINDOW_SHRINK_FACTOR)]
    ELSE [c EXCEPT !.flightWindowLimit =
            limitedWindow(U32(@ * RDP_WINDOW_EXPAND_FACTOR)),
                   !.oldestResent = oldest]

updateRetransmitTimeout(c, mstime) ==
  LET pw == rbufferGet(c.outbuf, c.seqnr - c.queue)
      bad == c.queue # 0
               /\ (pw = NULL \/ pw.transmissions = 0 \/ pw.sentTime = 0)
      afterLastSent == IF c.queue # 0 THEN U32(mstime - pw.sentTime) ELSE 0
      diff == WU32(WSub(WOf(c.nextRetransmitTimeout), WOf(afterLastSent)))
      \* retransmitTimeout is unsigned: the comparison with 0 is made on
      \* the converted value
      timeout == IF WLess(diff, WOf(0)) THEN WOf(0) ELSE diff
  IN IF bad THEN Failed(c, "updateRetransmitTimeout")
     ELSE [c EXCEPT !.retransmitTimeout = timeout,
                    !.retransmitTicker = WU64(WAdd(WOf(mstime), timeout))]

\* A variant of the marking loop that marks the packets and leaves their
\* payload in the flight window.
RECURSIVE MarkFromKeepsFlight(_, _, _)
MarkFromKeepsFlight(c, k, mstime) ==
  IF k >= c.queue THEN c
  ELSE
    LET i == U16(c.seqnr - c.queue + k)
        pw == rbufferGet(c.outbuf, i)
    IN IF pw = NULL THEN MarkFromKeepsFlight(c, k + 1, mstime)
       ELSE IF \/ pw.transmissions = 0
               \/ pw.needResend = 1
               \/ WLess(WOf(mstime),
                        WU64(WAdd(WOf(pw.sentTime), c.retransmitTimeout)))
         THEN MarkFromKeepsFlight(c, k + 1, mstime)
       ELSE MarkFromKeepsFlight(
              [c EXCEPT !.outbuf =
                          rbufferPut(@, i, [pw EXCEPT !.needResend = 1])],
              k + 1, mstime)

\* The marking loop of rdpConnCheck from offset k of the queue on.
RECURSIVE MarkFrom(_, _, _)
MarkFrom(c, k, mstime) ==
  IF k >= c.queue \/ c.fail # "" THEN c
  ELSE
    LET i == U16(c.seqnr - c.queue + k)
        pw == rbufferGet(c.outbuf, i)
    IN IF pw = NULL THEN MarkFrom(c, k + 1, mstime)
       ELSE IF \/ pw.transmissions = 0
               \/ pw.needResend = 1
               \/ WLess(WOf(mstime),
                        WU64(WAdd(WOf(pw.sentTime), c.retransmitTimeout)))
         THEN MarkFrom(c, k + 1, mstime)
       ELSE IF ~(c.flightWindow >= pw.payload)
         THEN Failed(c, "rdpConnCheck:flightWindow")
       ELSE MarkFrom([c EXCEPT
                        !.outbuf = rbufferPut(@, i, [pw EXCEPT !.needResend = 1]),
                        !.flightWindow = @ - pw.payload],
                     k + 1, mstime)

\* rdpConnCheck up to its last statement; timed tells whether that last
\* statement (the update of nextCheckTimeout) is reached.
ConnCheckBody(c, mstime) ==
  LET r0 == [c |-> c, out |-> <<>>, ret |-> 0, timed |-> TRUE]
      due == ~WLess(WOf(mstime), c.retransmitTicker)
  IN
  IF ~(c.queue = 0 \/ rbufferGet(c.outbuf, c.seqnr - c.queue) # NULL)
    THEN [r0 EXCEPT !.c = Failed(c, "rdpConnCheck:oldest")]
  ELSE IF c.state \in {CS_UNINITIALIZED, CS_DESTROY} THEN r0
  ELSE IF due /\ c.state = CS_FIN_SENT
            /\ mstime >= c.lastReceivedPacket + RDP_WAIT_FIN_SENT
    THEN [r0 EXCEPT !.c.state = CS_DESTROY, !.timed = FALSE]
  ELSE IF due /\ c.state = CS_SYN_RECV
            /\ mstime >= c.lastReceivedPacket + RDP_WAIT_SYN_RECV
    THEN [r0 EXCEPT !.c.state = CS_DESTROY, !.timed = FALSE]
  ELSE
    Local(IF due /\ c.queue > 0
            THEN resizeWindow(MarkFrom(c, 0, mstime)) ELSE c,
          LAMBDA marked :
    Local(IF due /\ c.queue > 0 /\ marked.fail = ""
            THEN rdpConnFlushPackets([r0 EXCEPT !.c = marked], mstime)
            ELSE [r0 EXCEPT !.c = marked],
          LAMBDA flushed :
    Local(IF due /\ flushed.c.fail = ""
            THEN [flushed EXCEPT !.c = updateRetransmitTimeout(@, mstime)]
            ELSE flushed,
          LAMBDA r1 :
      IF r1.c.fail = ""
           /\ r1.c.state \in {CS_CONNECTED, CS_CONNECTED_FULL}
           /\ mstime >= r1.c.lastSentPacket + RDP_KEEPALIVE_INTERVAL
        THEN rdpConnKeepAlive(r1, mstime)
        ELSE r1)))

\* rdpConnCheck; nct is rdpSocket.nextCheckTimeout, which it updates.
rdpConnCheck(c, mstime, nct) ==
  Local(ConnCheckBody(c, mstime), LAMBDA r :
  Local(WU64(WSub(r.c.retransmitTicker, WOf(mstime))), LAMBDA left :
    [c |-> r.c, out |-> r.out,
     nct |-> IF r.timed /\ r.c.fail = ""
               THEN min(RDP_SOCKET_CHECK_TIMEOUT_MAX,
                        max(RDP_SOCKET_CHECK_TIMEOUT_MIN,
                            IF WLess(left, WOf(nct)) THEN left.c0 ELSE nct))
               ELSE nct]))

\* rdpConnDestroy of node i of the list: the node listNodeFind finds for it
\* is the one removed.
rdpConnDestroy(cs, i) ==
  listNodeDestroy(cs, findRdpConnInRdpSocket(cs, cs[i].addr, cs[i].recvId))

\* The loop of rdpSocketIntervalAction from node i on; t is [s, conns, out].
RECURSIVE CheckFrom(_, _)
CheckFrom(t, i) ==
  IF i > Len(t.conns) THEN t
  ELSE
    Local(rdpConnCheck(t.conns[i], t.s.mstime, t.s.nextCheckTimeout),
          LAMBDA r :
    Local([t.conns EXCEPT ![i] = r.c], LAMBDA cs1 :
    Local(findRdpConnInRdpSocket(cs1, r.c.addr, r.c.recvId), LAMBDA j :
    Local([s |-> [t.s EXCEPT !.nextCheckTimeout = r.nct],
           conns |-> IF r.c.state = CS_DESTROY
                       THEN rdpConnDestroy(cs1, i) ELSE cs1,
           out |-> t.out \o r.out],
          LAMBDA t1 :
      IF r.c.fail # "" THEN t1
      ELSE CheckFrom(t1, IF r.c.state = CS_DESTROY /\ j <= i
                           THEN i ELSE i + 1)))))

rdpSocketIntervalAction(s, cs, clock) ==
  IF clock < s.lastCheck + s.nextCheckTimeout
    THEN [s |-> [s EXCEPT !.mstime = clock], conns |-> cs, out |-> <<>>,
          ret |-> s.nextCheckTimeout - (clock - s.lastCheck)]
    ELSE Local(CheckFrom([s |-> [s EXCEPT
                                   !.mstime = clock,
                                   !.lastCheck = clock,
                                   !.nextCheckTimeout =
                                      RDP_SOCKET_CHECK_TIMEOUT_DEFAULT],
                          conns |-> cs, out |-> <<>>], 1),
               LAMBDA t :
                 [s |-> t.s, conns |-> t.conns, out |-> t.out,
                  ret |-> t.s.nextCheckTimeout])

----------------------------------------------------------------------------
(* The system: endpoint A opens connections to endpoint B *)

Endpoints == {"A", "B"}
Peer(e) == IF e = "A" THEN "B" ELSE "A"

\* Bounds of the exploration
T0 == 100000            \* the clock when the sockets are created
StepShort == 100        \* lapses of time between two calls
StepLong == 500
MaxElapsed == 500       \* the clock stops at T0 + MaxElapsed
TimerElapsed == 500     \* or at T0 + TimerElapsed, with the short lapses
IdleStep == 29000       \* the lapse of an idle connection
IdleElapsed == 58000    \* the clock stops at T0 + IdleElapsed, with that lapse
LingerStep == 10000     \* the lapse after which a closing connection is given up
SeedSpan == 2           \* identifier seeds 0 .. SeedSpan, where seeds collide
QueueStream == 4195100  \* bytes accepted on a connection whose queue is long
SlotSmall == 256        \* bytes of each write that filled a queue up to its brim
BrimStream == 4200000   \* bytes accepted on a connection with such a queue
BrimSAcked == 6         \* slots of such a queue one SACK record acknowledges
NarrowTicks == 11       \* retransmissions of the SYN before a run with a narrow window
NarrowStream == 2790    \* bytes accepted on a connection with a narrow window
WrapSeed == 65532       \* a value of rand() three packets before the wrap
WrapStream == 1800      \* bytes accepted on a connection that starts there
StaleNet == 3           \* datagrams in the network when a stale one may join them
WidenRounds == 4        \* packets retransmitted once and acknowledged before a run with a wide window
WidenElapsed == 1000    \* the clock of that run stops at T0 + WidenElapsed
SackFew == 31           \* packets a receiver holds out of order: one mask word,
SackRing == 62          \* the ring of 64 slots as full as it gets,
SackMany == 2016        \* and a mask of 256 bytes
ShrinkTicks == 13       \* retransmissions of the SYN before the run starts
MaxObjs == 2            \* connection objects ever made
MaxWritten == 600       \* bytes accepted from the writes of one connection
MaxStream == 1200       \* the same, where the stream is what is checked
WriteSmall == 600       \* lengths given to rdpWrite
WriteBig == 1400
LenSmall == 512         \* lengths of the buffer given to rdpReadPoll
LenBig == 2048
SeqSeedA == 65534       \* values of rand()
SeqSeedB == 7
IdSeed == 65535

Steps == {StepLong}
WriteSizes == {WriteSmall}
Lens == {LenSmall, LenBig}
SeqSeeds(e) == IF e = "A" THEN {SeqSeedA} ELSE {SeqSeedB}
IdSeeds == {U16(IdSeed)}

rdpSocketCreate(clock) ==
  [mstime |-> clock, lastCheck |-> clock,
   nextCheckTimeout |-> RDP_SOCKET_CHECK_TIMEOUT_DEFAULT]

InitFresh ==
  /\ now = T0
  /\ sock = [e \in Endpoints |-> rdpSocketCreate(T0)]
  /\ conns = [e \in Endpoints |-> <<>>]
  /\ fresh = [e \in Endpoints |-> {}]
  /\ reliable \in BOOLEAN
  /\ net = IF reliable THEN <<>> ELSE {}
  /\ aborted = [e \in Endpoints |-> ""]
  /\ written = <<>>
  /\ delivered = <<>>
  /\ eofs = <<>>
  /\ nconn = 0

\* The network after the datagrams out were sent.
Sent(n, out) ==
  IF reliable THEN n \o out ELSE n \cup {out[k] : k \in 1 .. Len(out)}

\* The datagrams recvfrom can return on e.
Arrivals(e) ==
  IF reliable
    THEN IF \E k \in 1 .. Len(net) : net[k].dst = e
           THEN {net[CHOOSE k \in 1 .. Len(net) :
                        /\ net[k].dst = e
                        /\ \A j \in 1 .. (k - 1) : net[j].dst # e]}
           ELSE {}
    ELSE {p \in net : p.dst = e}

\* The network after p arrived: a reliable one delivers it once.
Without(n, p) ==
  IF reliable
    THEN LET k == CHOOSE k \in 1 .. Len(n) :
                    n[k] = p /\ \A j \in 1 .. (k - 1) : n[j] # p
         IN [j \in 1 .. (Len(n) - 1) |-> IF j < k THEN n[j] ELSE n[j + 1]]
    ELSE n

Failure(cs) ==
  IF \E i \in 1 .. Len(cs) : cs[i].fail # ""
    THEN (CHOOSE i \in 1 .. Len(cs) : cs[i].fail # "")
    ELSE 0

\* The process of e stops on a failed assertion; what it sent stays sent.
Abort(e, what, out) ==
  /\ aborted' = [aborted EXCEPT ![e] = what]
  /\ net' = Sent(net, out)
  /\ UNCHANGED <<now, sock, conns, fresh, reliable, written, delivered, eofs,
                 nconn>>

\* The clock advances by d, up to the time end.
Advance(d, end) ==
  /\ now + d <= end
  /\ now' = now + d
  /\ UNCHANGED <<sock, conns, fresh, net, reliable, aborted, written,
                 delivered, eofs, nconn>>

\* rdpConnCreate
Create(e, rnd) ==
  /\ aborted[e] = ""
  /\ nconn < MaxObjs - 1
  /\ nconn' = nconn + 1
  /\ fresh' = [fresh EXCEPT ![e] = @ \cup {rdpConnCreate(e, rnd, nconn + 1)}]
  /\ written' = Append(written, 0)
  /\ delivered' = Append(delivered, NoData)
  /\ eofs' = Append(eofs, 0)
  /\ UNCHANGED <<now, sock, conns, net, reliable, aborted>>

\* rdpConnect on a connection just created
Connect(e, c, idSeed) ==
  /\ aborted[e] = ""
  /\ c \in fresh[e]
  /\ findRdpConnInRdpSocket(conns[e], Peer(e), idSeed) = 0
  /\ \E r \in {rdpConnect(c, Peer(e), idSeed, now)} :
       IF r.c.fail # "" THEN Abort(e, r.c.fail, r.out)
       ELSE
         /\ sock' = [sock EXCEPT ![e].mstime = now]
         /\ conns' = [conns EXCEPT ![e] = listNodeAddHead(@, r.c)]
         /\ fresh' = [fresh EXCEPT ![e] = @ \ {c}]
         /\ net' = Sent(net, r.out)
         /\ UNCHANGED <<now, reliable, aborted, written, delivered, eofs,
                        nconn>>

\* rdpConnect on a connection of the list: it is not CS_UNINITIALIZED
ConnectAgain(e, i) ==
  /\ aborted[e] = ""
  /\ i \in 1 .. Len(conns[e])
  /\ conns[e][i].state # CS_UNINITIALIZED
  /\ UNCHANGED <<now, sock, conns, fresh, net, reliable, aborted, written,
                 delivered, eofs, nconn>>

\* rdpWrite of n bytes on connection i of the list of e; the calls that
\* would bring the bytes accepted on the connection over most are left out.
Write(e, i, n, most) ==
  /\ aborted[e] = ""
  /\ i \in 1 .. Len(conns[e])
  /\ \E c \in {conns[e][i]} :
     \E r \in {rdpWriteVec(c, n, written[c.id], sock[e].mstime, now)} :
        /\ written[c.id] + max(r.ret, 0) <= most
        /\ IF r.c.fail # "" THEN Abort(e, r.c.fail, r.out)
           ELSE
             /\ sock' = [sock EXCEPT ![e].mstime = r.mstime]
             /\ conns' = [conns EXCEPT ![e][i] = r.c]
             /\ net' = Sent(net, r.out)
             /\ written' = [written EXCEPT ![c.id] = @ + max(r.ret, 0)]
             /\ UNCHANGED <<now, fresh, reliable, aborted, delivered, eofs,
                            nconn>>

\* rdpWrite on a connection that was never connected
WriteFresh(e, c, n) ==
  /\ aborted[e] = ""
  /\ c \in fresh[e]
  /\ \E r \in {rdpWriteVec(c, n, written[c.id], sock[e].mstime, now)} :
        /\ fresh' = [fresh EXCEPT ![e] = (@ \ {c}) \cup {r.c}]
        /\ sock' = [sock EXCEPT ![e].mstime = r.mstime]
        /\ net' = Sent(net, r.out)
  /\ UNCHANGED <<now, conns, reliable, aborted, written, delivered, eofs,
                 nconn>>

\* rdpConnClose on connection i of the list of e
Close(e, i) ==
  /\ aborted[e] = ""
  /\ i \in 1 .. Len(conns[e])
  /\ \E c \in {conns[e][i]} :
     \E r \in {rdpConnClose(c, sock[e].mstime)} :
        IF r.c.fail # "" THEN Abort(e, r.c.fail, r.out)
        ELSE
          /\ conns' = [conns EXCEPT ![e][i] = r.c]
          /\ net' = Sent(net, r.out)
          /\ UNCHANGED <<now, sock, fresh, reliable, aborted, written,
                         delivered, eofs, nconn>>

\* rdpConnClose on a connection that was never connected
CloseFresh(e, c) ==
  /\ aborted[e] = ""
  /\ c \in fresh[e]
  /\ \E r \in {rdpConnClose(c, sock[e].mstime)} :
        /\ fresh' = [fresh EXCEPT ![e] = (@ \ {c}) \cup {r.c}]
        /\ net' = Sent(net, r.out)
  /\ UNCHANGED <<now, sock, conns, reliable, aborted, written, delivered,
                 eofs, nconn>>

\* rdpReadPoll on e with a buffer of len bytes; dg is the datagram recvfrom
\* returns (NULL: none has arrived).
\* The list cs with the events reported for its node i counted.
Reported(cs, i, events) ==
  IF i = 0 THEN cs
  ELSE [cs EXCEPT
          ![i].nConnected = IF RDP_CONNECTED \in events THEN @ + 1 ELSE @,
          ![i].nAccept = IF RDP_ACCEPT \in events THEN @ + 1 ELSE @,
          ![i].nPollout = IF RDP_POLLOUT \in events THEN @ + 1 ELSE @]

\* A call that finds no datagram, nothing to drain and no acknowledgement
\* to send changes nothing but the clock snapshot, and is left out.
ReadPoll(e, len, dg, rnd) ==
  /\ aborted[e] = ""
  /\ dg = NULL \/ dg \in Arrivals(e)
  /\ dg = NULL =>
        \/ Drain(conns[e], 1, len, sock[e].mstime).hit
        \/ \E i \in 1 .. Len(conns[e]) : conns[e][i].needSendAck = 1
  /\ \E r \in {rdpReadPoll(e, sock[e], conns[e], len, dg, now, rnd,
                            nconn + 1)} :
     LET made == Len(r.conns) > Len(conns[e])
         took == dg # NULL /\ ~Drain(conns[e], 1, len, sock[e].mstime).hit
         left == IF took THEN Without(net, dg) ELSE net
         id == IF r.conn = 0 THEN 0 ELSE r.conns[r.conn].id
     IN /\ made => nconn < MaxObjs
        /\ IF Failure(r.conns) # 0
             THEN Abort(e, r.conns[Failure(r.conns)].fail, r.out)
             ELSE
               /\ sock' = [sock EXCEPT ![e] = r.s]
               /\ conns' = [conns EXCEPT ![e] = Reported(r.conns, r.conn,
                                                         r.events)]
               /\ net' = Sent(left, r.out)
               /\ nconn' = IF made THEN nconn + 1 ELSE nconn
               /\ written' = IF made THEN Append(written, 0) ELSE written
               /\ delivered' =
                    IF made THEN Append(delivered, NoData)
                    ELSE IF RDP_DATA \in r.events /\ r.ret > 0
                      THEN [delivered EXCEPT ![id] = DataJoin(@, r.data)]
                      ELSE delivered
               /\ eofs' =
                    IF made THEN Append(eofs, 0)
                    ELSE IF RDP_DATA \in r.events /\ r.ret = 0
                      THEN [eofs EXCEPT ![id] = @ + 1]
                      ELSE eofs
               /\ UNCHANGED <<now, fresh, reliable, aborted>>

\* rdpSocketIntervalAction on e
Tick(e) ==
  /\ aborted[e] = ""
  /\ \E t \in {rdpSocketIntervalAction(sock[e], conns[e], now)} :
        IF Failure(t.conns) # 0
          THEN Abort(e, t.conns[Failure(t.conns)].fail, t.out)
          ELSE
            /\ sock' = [sock EXCEPT ![e] = t.s]
            /\ conns' = [conns EXCEPT ![e] = t.conns]
            /\ net' = Sent(net, t.out)
            /\ UNCHANGED <<now, fresh, reliable, aborted, written, delivered,
                           eofs, nconn>>

\* The state a connect of A reaches when the network loses the SYN and its
\* first retransmissions, the tick being called at each deadline: every
\* retransmission but the first halves flightWindowLimit.
RECURSIVE Retried(_, _)
Retried(t, k) ==
  IF k = 0 THEN t
  ELSE CHOOSE w \in
         {Retried([s |-> u.s, conns |-> u.conns, out |-> t.out \o u.out],
                  k - 1) :
            u \in {rdpSocketIntervalAction(
                     t.s, t.conns, t.s.mstime + t.s.nextCheckTimeout)}} : TRUE

Shrunk ==
  LET start == T0 - ShrinkTicks * RDP_RETRANSMIT_TIMEOUT_DEFAULT
      r == rdpConnect(rdpConnCreate("A", SeqSeedA, 1), "B", U16(IdSeed),
                      start)
  IN Retried([s |-> rdpSocketCreate(start), conns |-> <<r.c>>,
              out |-> r.out], ShrinkTicks)

InitShrunk ==
  \E t \in {Shrunk} :
    /\ now = T0
    /\ sock = [e \in Endpoints |->
                 IF e = "A" THEN t.s ELSE rdpSocketCreate(T0)]
    /\ conns = [e \in Endpoints |-> IF e = "A" THEN t.conns ELSE <<>>]
    /\ fresh = [e \in Endpoints |-> {}]
    /\ reliable = FALSE
    /\ net = {t.out[Len(t.out)]}
    /\ aborted = [e \in Endpoints |-> ""]
    /\ written = <<0>>
    /\ delivered = <<NoData>>
    /\ eofs = <<0>>
    /\ nconn = 1

Init == (InitFresh /\ ~reliable) \/ InitShrunk

Next ==
  \/ \E d \in Steps : Advance(d, T0 + MaxElapsed)
  \/ \E rnd \in SeqSeeds("A") : Create("A", rnd)
  \/ \E c \in fresh["A"] : \E s \in IdSeeds : Connect("A", c, s)
  \/ \E e \in Endpoints : \E i \in 1 .. Len(conns[e]) : ConnectAgain(e, i)
  \/ \E i \in 1 .. Len(conns["A"]) : \E n \in WriteSizes :
       Write("A", i, n, MaxWritten)
  \/ \E c \in fresh["A"] : \E n \in WriteSizes : WriteFresh("A", c, n)
  \/ \E e \in Endpoints : \E i \in 1 .. Len(conns[e]) : Close(e, i)
  \/ \E c \in fresh["A"] : CloseFresh("A", c)
  \/ \E e \in Endpoints : \E len \in Lens :
       \E dg \in Arrivals(e) \cup {NULL} : \E rnd \in SeqSeeds(e) :
         ReadPoll(e, len, dg, rnd)
  \/ \E e \in Endpoints : Tick(e)

Spec == Init /\ [][Next]_vars

----------------------------------------------------------------------------
(* The byte stream: two writes, no close *)

InitStream == InitFresh /\ ~reliable

NextStream ==
  \/ \E d \in Steps : Advance(d, T0 + MaxElapsed)
  \/ \E rnd \in SeqSeeds("A") : Create("A", rnd)
  \/ \E c \in fresh["A"] : \E s \in IdSeeds : Connect("A", c, s)
  \/ \E i \in 1 .. Len(conns["A"]) : \E n \in WriteSizes :
       Write("A", i, n, MaxStream)
  \/ \E e \in Endpoints : \E len \in Lens :
       \E dg \in Arrivals(e) \cup {NULL} : \E rnd \in SeqSeeds(e) :
         ReadPoll(e, len, dg, rnd)
  \/ \E e \in Endpoints : Tick(e)

SpecStream == InitStream /\ [][NextStream]_vars

----------------------------------------------------------------------------
(* A network that loses, duplicates and reorders nothing *)

InitReliable == InitFresh /\ reliable

NextReliable ==
  \/ \E d \in Steps : Advance(d, T0 + MaxElapsed)
  \/ \E rnd \in SeqSeeds("A") : Create("A", rnd)
  \/ \E c \in fresh["A"] : \E s \in IdSeeds : Connect("A", c, s)
  \/ \E i \in 1 .. Len(conns["A"]) : \E n \in WriteSizes :
       Write("A", i, n, MaxStream)
  \/ \E i \in 1 .. Len(conns["A"]) : Close("A", i)
  \/ \E e \in Endpoints : \E len \in Lens :
       \E dg \in Arrivals(e) \cup {NULL} : \E rnd \in SeqSeeds(e) :
         ReadPoll(e, len, dg, rnd)
  \/ \E e \in Endpoints : Tick(e)

SpecReliable == InitReliable /\ [][NextReliable]_vars

----------------------------------------------------------------------------
(* The retransmission timer: short lapses of time, one write, a network
   that may lose everything *)

InitTimer == InitFresh /\ ~reliable

NextTimer ==
  \/ Advance(StepShort, T0 + TimerElapsed)
  \/ \E rnd \in SeqSeeds("A") : Create("A", rnd)
  \/ \E c \in fresh["A"] : \E s \in IdSeeds : Connect("A", c, s)
  \/ \E i \in 1 .. Len(conns["A"]) : \E n \in WriteSizes :
       Write("A", i, n, MaxWritten)
  \/ \E e \in Endpoints :
       \E dg \in Arrivals(e) \cup {NULL} : \E rnd \in SeqSeeds(e) :
         ReadPoll(e, LenBig, dg, rnd)
  \/ \E e \in Endpoints : Tick(e)

SpecTimer == InitTimer /\ [][NextTimer]_vars

----------------------------------------------------------------------------
(* Long send queues: the run starts after A connected and wrote its queue
   or its flight window nearly full, every data packet being lost *)

\* The state after A connected to B, B answered its SYN and A took the
\* answer, all at the time clock.
Established(clock) ==
  LET a0 == rdpConnect(rdpConnCreate("A", SeqSeedA, 1), "B", U16(IdSeed),
                       clock)
      b1 == rdpReadPoll("B", rdpSocketCreate(clock), <<>>, LenBig, a0.out[1],
                        clock, SeqSeedB, 2)
      a1 == rdpReadPoll("A", rdpSocketCreate(clock), <<a0.c>>, LenBig,
                        b1.out[1], clock, SeqSeedA, 3)
  IN [sa |-> a1.s, ca |-> Reported(a1.conns, a1.conn, a1.events)[1],
      sb |-> b1.s, cb |-> b1.conns[1]]

\* The size the send ring has grown to when it holds n slots.
RECURSIVE RingSize(_, _)
RingSize(size, n) == IF n <= size THEN size ELSE RingSize(size * 2, n)

\* The connection c, whose queue is empty, after n calls of rdpWrite of
\* size bytes each at the time clock: every call queued one slot and sent
\* it, the flight window having room for it.
Queued(c, n, size, clock) ==
  LET ring == RingSize(RbufferInitSize, n)
      slot(j) == [payload |-> size, sentTime |-> clock, transmissions |-> 1,
                  needResend |-> 0, type |-> ST_DATA, connId |-> c.sendId,
                  window |-> c.recvWindowSelf, seqnr |-> U16(c.seqnr + j),
                  acknr |-> c.acknr, data |-> << <<c.id, j * size, size>> >>]
  IN [c EXCEPT
        !.outbuf = [mask |-> ring - 1,
                    elements |-> [k \in {U16(c.seqnr + j) % ring :
                                           j \in 0 .. (n - 1)} |->
                                    slot((k - c.seqnr) % ring)]],
        !.seqnr = U16(@ + n),
        !.queue = n,
        !.flightWindow = n * size,
        !.lastSentPacket = clock]

\* The number of full packets in flight that leave the window room for one
\* more.
WindowPackets == (RDP_WINDOW_SIZE_DEFAULT \div getMaxPacketPayloadSize) - 1

\* The queues the run starts with: slots of one byte up to the slot kept
\* for the FIN or one or two below it, or full packets up to the last one
\* that the flight window admits or one or two below it.
LongQueues ==
  {[n |-> RDP_QUEUE_SIZE_MAX - k, size |-> 1] : k \in {1, 2, 3}}
    \cup {[n |-> WindowPackets + 1 - k, size |-> getMaxPacketPayloadSize] :
            k \in {0, 1, 2}}

QueueWrites == {getMaxPacketPayloadSize, WriteBig}

InitQueue ==
  \E t \in {Established(T0)} : \E q \in LongQueues :
    /\ now = T0
    /\ sock = [e \in Endpoints |-> IF e = "A" THEN t.sa ELSE t.sb]
    /\ conns = [e \in Endpoints |->
                  IF e = "A" THEN <<Queued(t.ca, q.n, q.size, T0)>>
                             ELSE <<t.cb>>]
    /\ fresh = [e \in Endpoints |-> {}]
    /\ reliable = FALSE
    /\ net = {}
    /\ aborted = [e \in Endpoints |-> ""]
    /\ written = <<q.n * q.size, 0>>
    /\ delivered = <<NoData, NoData>>
    /\ eofs = <<0, 0>>
    /\ nconn = 2

NextQueue ==
  \/ \E i \in 1 .. Len(conns["A"]) : \E n \in QueueWrites :
       Write("A", i, n, QueueStream)
  \/ \E i \in 1 .. Len(conns["A"]) : Close("A", i)
  \/ \E e \in Endpoints :
       \E dg \in Arrivals(e) \cup {NULL} : \E rnd \in SeqSeeds(e) :
         ReadPoll(e, LenBig, dg, rnd)

SpecQueue == InitQueue /\ [][NextQueue]_vars

----------------------------------------------------------------------------
(* A queue at its brim: the run starts after A connected and wrote slots of
   SlotSmall bytes as long as the flight window had room, then WriteBig
   bytes whose last slot the window kept back; the network lost the first
   data packet and delivered some of the next ones, which B acknowledged
   selectively *)

\* The number of writes of SlotSmall bytes after which the flight window
\* still has room for a full packet.
BrimSlots ==
  (RDP_WINDOW_SIZE_DEFAULT - getMaxPacketPayloadSize) \div SlotSmall

\* The socket and the list of B after it took the datagrams of the slots
\* first .. last of the queue of ca.
RECURSIVE Taken(_, _, _, _, _)
Taken(b, ca, first, last, clock) ==
  IF first > last THEN b
  ELSE
    Local(rbufferGet(ca.outbuf, ca.seqnr - ca.queue + first - 1),
          LAMBDA pw :
    Local(rdpReadPoll("B", b.s, b.conns, LenBig, PacketOf(ca, pw), clock,
                      SeqSeedB, 3),
          LAMBDA r :
      Taken([s |-> r.s, conns |-> Reported(r.conns, r.conn, r.events)],
            ca, first + 1, last, clock)))

\* The socket and the list of e after the rdpReadPoll call r.
Polled2(r) == [s |-> r.s, conns |-> Reported(r.conns, r.conn, r.events)]

\* The state after A connected and wrote full packets until the flight
\* window was full, every data packet being lost.
WindowFull(clock) ==
  LET t == Established(clock)
  IN [sa |-> t.sa,
      ca |-> Queued(t.ca, WindowPackets + 1, getMaxPacketPayloadSize, clock),
      sb |-> t.sb, cb |-> t.cb, out |-> <<>>,
      written |-> (WindowPackets + 1) * getMaxPacketPayloadSize]

\* The run starts in the state t.
StartBrim(t) ==
  /\ now = T0
  /\ sock = [e \in Endpoints |-> IF e = "A" THEN t.sa ELSE t.sb]
  /\ conns = [e \in Endpoints |-> IF e = "A" THEN <<t.ca>> ELSE <<t.cb>>]
  /\ fresh = [e \in Endpoints |-> {}]
  /\ reliable = FALSE
  /\ net = {t.out[k] : k \in 1 .. Len(t.out)}
  /\ aborted = [e \in Endpoints |-> ""]
  /\ written = <<t.written, 0>>
  /\ delivered = <<NoData, NoData>>
  /\ eofs = <<0, 0>>
  /\ nconn = 2

\* The second start is the state after the history told above, all of it at
\* the time T0: the slots 2 .. BrimSAcked + 1 are acknowledged (p1, a1)
\* before the last writes (w1, w2, w3), the next BrimSAcked slots after
\* them (p2, a2).
InitBrim ==
  \/ \E t \in {WindowFull(T0)} : StartBrim(t)
  \/ \E t \in {Established(T0)} :
     \E a0 \in {Queued(t.ca, BrimSlots, SlotSmall, T0)} :
     \E b1 \in {Taken([s |-> t.sb, conns |-> <<t.cb>>], a0, 2,
                      BrimSAcked + 1, T0)} :
     \E p1 \in {rdpReadPoll("B", b1.s, b1.conns, LenBig, NULL, T0, SeqSeedB,
                            3)} :
     \E a1 \in {rdpReadPoll("A", t.sa, <<a0>>, LenBig, p1.out[1], T0,
                            SeqSeedA, 3)} :
     \E w1 \in {rdpWriteVec(Polled2(a1).conns[1], SlotSmall,
                            BrimSlots * SlotSmall, a1.s.mstime, T0)} :
     \E w2 \in {rdpWriteVec(w1.c, SlotSmall, (BrimSlots + 1) * SlotSmall,
                            w1.mstime, T0)} :
     \E w3 \in {rdpWriteVec(w2.c, WriteBig, (BrimSlots + 2) * SlotSmall,
                            w2.mstime, T0)} :
     \E b2 \in {Taken(Polled2(p1), a0, BrimSAcked + 2, 2 * BrimSAcked + 1,
                      T0)} :
     \E p2 \in {rdpReadPoll("B", b2.s, b2.conns, LenBig, NULL, T0, SeqSeedB,
                            3)} :
     \E a2 \in {rdpReadPoll("A", [a1.s EXCEPT !.mstime = w3.mstime],
                            <<w3.c>>, LenBig, p2.out[1], T0, SeqSeedA, 3)} :
       StartBrim([sa |-> a2.s, ca |-> Polled2(a2).conns[1],
                  sb |-> p2.s, cb |-> Polled2(p2).conns[1],
                  out |-> w1.out \o w2.out \o w3.out \o p2.out,
                  written |-> (BrimSlots + 2) * SlotSmall + w3.ret])

NextBrim ==
  \/ \E i \in 1 .. Len(conns["A"]) : \E n \in QueueWrites :
       Write("A", i, n, BrimStream)
  \/ \E i \in 1 .. Len(conns["A"]) : Close("A", i)
  \/ \E e \in Endpoints :
       \E dg \in Arrivals(e) \cup {NULL} : \E rnd \in SeqSeeds(e) :
         ReadPoll(e, LenBig, dg, rnd)

SpecBrim == InitBrim /\ [][NextBrim]_vars

----------------------------------------------------------------------------
(* A narrow flight window: the run starts after the network lost the SYN of
   A and its first NarrowTicks - 1 retransmissions, which left
   flightWindowLimit with room for two full packets and no more *)

Narrowed ==
  LET start == T0 - NarrowTicks * RDP_RETRANSMIT_TIMEOUT_DEFAULT
      r == rdpConnect(rdpConnCreate("A", SeqSeedA, 1), "B", U16(IdSeed),
                      start)
  IN Retried([s |-> rdpSocketCreate(start), conns |-> <<r.c>>,
              out |-> r.out], NarrowTicks)

InitNarrow ==
  \E t \in {Narrowed} :
    /\ now = T0
    /\ sock = [e \in Endpoints |->
                 IF e = "A" THEN t.s ELSE rdpSocketCreate(T0)]
    /\ conns = [e \in Endpoints |-> IF e = "A" THEN t.conns ELSE <<>>]
    /\ fresh = [e \in Endpoints |-> {}]
    /\ reliable = FALSE
    /\ net = {t.out[Len(t.out)]}
    /\ aborted = [e \in Endpoints |-> ""]
    /\ written = <<0>>
    /\ delivered = <<NoData>>
    /\ eofs = <<0>>
    /\ nconn = 1

NextNarrow ==
  \/ \E i \in 1 .. Len(conns["A"]) : \E n \in QueueWrites :
       Write("A", i, n, NarrowStream)
  \/ \E i \in 1 .. Len(conns["A"]) : Close("A", i)
  \/ \E e \in Endpoints :
       \E dg \in Arrivals(e) \cup {NULL} : \E rnd \in SeqSeeds(e) :
         ReadPoll(e, LenBig, dg, rnd)

SpecNarrow == InitNarrow /\ [][NextNarrow]_vars

----------------------------------------------------------------------------
(* Acknowledgement numbers out of range: the network also delivers copies of
   the datagrams of B whose acknr is that of another time *)

\* How far the acknr of such a copy is from the one B sent.
AckShifts == {-(RDP_ACK_NR_RECV_BEHIND_ALLOWED + 1),
              -RDP_ACK_NR_RECV_BEHIND_ALLOWED, 1}

Stale(p, d) ==
  /\ p \in net
  /\ p.dst = "A"
  /\ p.type \in {ST_STATE, ST_DATA, ST_FIN}
  /\ Cardinality(net) <= StaleNet
  /\ net' = net \cup {[p EXCEPT !.acknr = U16(@ + d)]}
  /\ UNCHANGED <<now, sock, conns, fresh, reliable, aborted, written,
                 delivered, eofs, nconn>>

InitStale == InitFresh /\ ~reliable

NextStale ==
  \/ \E d \in Steps : Advance(d, T0 + MaxElapsed)
  \/ \E rnd \in SeqSeeds("A") : Create("A", rnd)
  \/ \E c \in fresh["A"] : \E s \in IdSeeds : Connect("A", c, s)
  \/ \E i \in 1 .. Len(conns["A"]) : \E n \in WriteSizes :
       Write("A", i, n, MaxWritten)
  \/ \E e \in Endpoints : \E i \in 1 .. Len(conns[e]) : Close(e, i)
  \/ \E p \in net : \E d \in AckShifts : Stale(p, d)
  \/ \E e \in Endpoints :
       \E dg \in Arrivals(e) \cup {NULL} : \E rnd \in SeqSeeds(e) :
         ReadPoll(e, LenBig, dg, rnd)

SpecStale == InitStale /\ [][NextStale]_vars

----------------------------------------------------------------------------
(* A stream across the wrap of the sequence numbers: rand() gives A the
   sequence number WrapSeed, A writes three packets and closes *)

InitWrap == InitFresh /\ ~reliable

NextWrap ==
  \/ Create("A", WrapSeed)
  \/ \E c \in fresh["A"] : \E s \in IdSeeds : Connect("A", c, s)
  \/ \E i \in 1 .. Len(conns["A"]) : \E n \in WriteSizes :
       Write("A", i, n, WrapStream)
  \/ \E i \in 1 .. Len(conns["A"]) : Close("A", i)
  \/ \E e \in Endpoints :
       \E dg \in Arrivals(e) \cup {NULL} : \E rnd \in SeqSeeds(e) :
         ReadPoll(e, LenBig, dg, rnd)

SpecWrap == InitWrap /\ [][NextWrap]_vars

----------------------------------------------------------------------------
(* Packets held out of order: the run starts after A connected and wrote
   full packets, of which the network held back the first and delivered the
   others to B; A does not poll *)

\* The numbers of packets B holds.
SackCounts == {1, SackFew, SackFew + 1, SackRing, SackRing + 1, SackMany}

\* The connection of B after B took the datagrams of the slots 2 .. n + 1 of
\* the queue of ca in order, the slot 1 being the one it waits for: the
\* first of them through rdpReadPoll, which accepts the connection, each of
\* the others stored in the receive ring, which grew to hold them, and
\* counted.
Buffered(b, ca, n, clock) ==
  LET c == Taken(b, ca, 2, 2, clock).conns[1]
      ring == RingSize(RbufferInitSize, n + 2)
      pw(k) == rbufferGet(ca.outbuf, c.acknr + 1 + ((k - c.acknr - 1) % ring))
  IN [c EXCEPT
        !.inbuf = [mask |-> ring - 1,
                   elements |-> [k \in {U16(c.acknr + 1 + j) % ring :
                                          j \in 1 .. n} |->
                                   [prefix |-> pw(k).payload,
                                    data |-> pw(k).data]]],
        !.outOfOrderCnt = n]

InitSack ==
  \E t \in {Established(T0)} : \E n \in SackCounts :
  \E a0 \in {Queued(t.ca, n + 1, getMaxPacketPayloadSize, T0)} :
  \E cb \in {Buffered([s |-> t.sb, conns |-> <<t.cb>>], a0, n, T0)} :
    StartBrim([sa |-> t.sa, ca |-> a0, sb |-> t.sb, cb |-> cb,
               out |-> IF n < SackMany
                         THEN <<PacketOf(a0, rbufferGet(a0.outbuf,
                                                        a0.seqnr - a0.queue))>>
                         ELSE <<>>,
               written |-> (n + 1) * getMaxPacketPayloadSize])

NextSack ==
  \/ \E e \in Endpoints : \E i \in 1 .. Len(conns[e]) : Close(e, i)
  \/ \E dg \in Arrivals("B") \cup {NULL} : \E rnd \in SeqSeeds("B") :
       ReadPoll("B", LenBig, dg, rnd)

SpecSack == InitSack /\ [][NextSack]_vars

----------------------------------------------------------------------------
(* A wide flight window: the run starts after A connected and, WidenRounds
   times, wrote a packet that the network lost, retransmitted it at the
   tick, and took the acknowledgement B sent for it: the retransmissions
   doubled flightWindowLimit up to its upper limit *)

\* One such round on the state t, A writing at the time clock.
Round(t, clock) ==
  Local(rdpWriteVec(t.ca, WriteSmall, t.written, t.sa.mstime, clock),
        LAMBDA w :
  Local(rdpSocketIntervalAction([t.sa EXCEPT !.mstime = w.mstime], <<w.c>>,
                                clock + RDP_RETRANSMIT_TIMEOUT_MAX),
        LAMBDA k :
  Local(rdpReadPoll("B", t.sb, <<t.cb>>, LenBig, k.out[Len(k.out)],
                    clock + RDP_RETRANSMIT_TIMEOUT_MAX, SeqSeedB, 3),
        LAMBDA b :
  Local(rdpReadPoll("B", b.s, Polled2(b).conns, LenBig, NULL,
                    clock + RDP_RETRANSMIT_TIMEOUT_MAX, SeqSeedB, 3),
        LAMBDA b2 :
  Local(rdpReadPoll("A", k.s, k.conns, LenBig, b2.out[Len(b2.out)],
                    clock + RDP_RETRANSMIT_TIMEOUT_MAX, SeqSeedA, 3),
        LAMBDA a :
    [sa |-> a.s, ca |-> Polled2(a).conns[1],
     sb |-> b2.s, cb |-> Polled2(b2).conns[1],
     written |-> t.written + w.ret])))))

\* The state after k rounds, the last of which ends at the time clock.
RECURSIVE Widened(_, _)
Widened(k, clock) ==
  IF k = 0
    THEN Local(Established(clock), LAMBDA t :
           [sa |-> t.sa, ca |-> t.ca, sb |-> t.sb, cb |-> t.cb,
            written |-> 0])
    ELSE Round(Widened(k - 1, clock - RDP_RETRANSMIT_TIMEOUT_MAX),
               clock - RDP_RETRANSMIT_TIMEOUT_MAX)

InitWiden ==
  \E t \in {Widened(WidenRounds, T0)} :
    /\ now = T0
    /\ sock = [e \in Endpoints |-> IF e = "A" THEN t.sa ELSE t.sb]
    /\ conns = [e \in Endpoints |-> IF e = "A" THEN <<t.ca>> ELSE <<t.cb>>]
    /\ fresh = [e \in Endpoints |-> {}]
    /\ reliable = FALSE
    /\ net = {}
    /\ aborted = [e \in Endpoints |-> ""]
    /\ written = <<t.written, 0>>
    /\ delivered = <<NoData, << <<t.ca.id, 0, t.written>> >> >>
    /\ eofs = <<0, 0>>
    /\ nconn = 2

NextWiden ==
  \/ Advance(StepLong, T0 + WidenElapsed)
  \/ \E i \in 1 .. Len(conns["A"]) : \E n \in WriteSizes :
       Write("A", i, n, (WidenRounds + 2) * WriteSmall)
  \/ \E e \in Endpoints :
       \E dg \in Arrivals(e) \cup {NULL} : \E rnd \in SeqSeeds(e) :
         ReadPoll(e, LenBig, dg, rnd)
  \/ \E e \in Endpoints : Tick(e)

SpecWiden == InitWiden /\ [][NextWiden]_vars

----------------------------------------------------------------------------
(* Many connections on one socket: B has answered the SYNs of earlier
   connections of A's address, which are still CS_SYN_RECV, and A starts
   anew *)

\* The connection B makes for the SYN of a connection whose identifier
\* seed is k.
Answered(k, clock) ==
  Local(rdpConnect(rdpConnCreate("A", SeqSeedA + k, 0), "B", U16(k), clock),
        LAMBDA a :
    rdpReadPoll("B", rdpSocketCreate(clock), <<>>, LenBig, a.out[1], clock,
                SeqSeedB + k, 0 - k).conns[1])

\* The list of B after n such SYNs, the last one at the head.
Crowd(n, clock) == [j \in 1 .. n |-> Answered(n + 1 - j, clock)]

CrowdSizes ==
  {RDP_MAX_CONNS_PER_RDPSOCKET - 1, RDP_MAX_CONNS_PER_RDPSOCKET}

InitCrowd ==
  \E n \in CrowdSizes :
    /\ now = T0
    /\ sock = [e \in Endpoints |-> rdpSocketCreate(T0)]
    /\ conns = [e \in Endpoints |-> IF e = "B" THEN Crowd(n, T0) ELSE <<>>]
    /\ fresh = [e \in Endpoints |-> {}]
    /\ reliable = FALSE
    /\ net = {}
    /\ aborted = [e \in Endpoints |-> ""]
    /\ written = <<>>
    /\ delivered = <<>>
    /\ eofs = <<>>
    /\ nconn = 0

NextCrowd ==
  \/ \E d \in Steps : Advance(d, T0 + MaxElapsed)
  \/ \E e \in Endpoints : \E rnd \in SeqSeeds(e) : Create(e, rnd)
  \/ \E e \in Endpoints : \E c \in fresh[e] : \E s \in IdSeeds :
       Connect(e, c, s)
  \/ \E i \in 1 .. Len(conns["A"]) : \E n \in WriteSizes :
       Write("A", i, n, MaxWritten)
  \/ \E i \in 1 .. Len(conns["A"]) : Close("A", i)
  \/ \E e \in Endpoints :
       \E dg \in Arrivals(e) \cup {NULL} : \E rnd \in SeqSeeds(e) :
         ReadPoll(e, LenBig, dg, rnd)

SpecCrowd == InitCrowd /\ [][NextCrowd]_vars

----------------------------------------------------------------------------
(* Idle connections: the clock moves by the keepalive interval *)

InitIdle == InitFresh /\ ~reliable

NextIdle ==
  \/ Advance(IdleStep, T0 + IdleElapsed)
  \/ \E rnd \in SeqSeeds("A") : Create("A", rnd)
  \/ \E c \in fresh["A"] : \E s \in IdSeeds : Connect("A", c, s)
  \/ \E i \in 1 .. Len(conns["A"]) : \E n \in WriteSizes :
       Write("A", i, n, MaxWritten)
  \/ \E e \in Endpoints :
       \E dg \in Arrivals(e) \cup {NULL} : \E rnd \in SeqSeeds(e) :
         ReadPoll(e, LenBig, dg, rnd)
  \/ \E e \in Endpoints : Tick(e)

SpecIdle == InitIdle /\ [][NextIdle]_vars

----------------------------------------------------------------------------
(* Datagrams that are not what a peer sent: the network, or any host that
   writes to the UDP port, can hand recvfrom a header followed by an
   extension record cut short *)

\* Header-only packet p with the extension bit set and a record that
\* declares four bytes of which none is in the datagram.
CutShort(p) ==
  [p EXCEPT !.reserve = 1, !.sack = [len |-> 4, size |-> 0, bits |-> {}]]

\* Such a datagram is put on the wire.
Corrupt(p) ==
  /\ p \in net
  /\ p.type \in {ST_STATE, ST_FIN}
  /\ p.reserve = 0
  /\ DataSize(p.data) = 0
  /\ net' = net \cup {CutShort(p)}
  /\ UNCHANGED <<now, sock, conns, fresh, reliable, aborted, written,
                 delivered, eofs, nconn>>

InitCorrupt == InitFresh /\ ~reliable

NextCorrupt ==
  \/ \E d \in Steps : Advance(d, T0 + MaxElapsed)
  \/ \E rnd \in SeqSeeds("A") : Create("A", rnd)
  \/ \E c \in fresh["A"] : \E s \in IdSeeds : Connect("A", c, s)
  \/ \E i \in 1 .. Len(conns["A"]) : \E n \in WriteSizes :
       Write("A", i, n, MaxWritten)
  \/ \E i \in 1 .. Len(conns["A"]) : Close("A", i)
  \/ \E p \in net : Corrupt(p)
  \/ \E e \in Endpoints :
       \E dg \in Arrivals(e) \cup {NULL} : \E rnd \in SeqSeeds(e) :
         ReadPoll(e, LenBig, dg, rnd)
  \/ \E e \in Endpoints : Tick(e)

SpecCorrupt == InitCorrupt /\ [][NextCorrupt]_vars

----------------------------------------------------------------------------
(* Closing: two writes by A, either side closes, large receive buffers,
   no timer *)

InitClose == InitFresh /\ ~reliable

NextClose ==
  \/ \E rnd \in SeqSeeds("A") : Create("A", rnd)
  \/ \E c \in fresh["A"] : \E s \in IdSeeds : Connect("A", c, s)
  \/ \E i \in 1 .. Len(conns["A"]) : \E n \in WriteSizes :
       Write("A", i, n, MaxStream)
  \/ \E e \in Endpoints : \E i \in 1 .. Len(conns[e]) : Close(e, i)
  \/ \E c \in fresh["A"] : CloseFresh("A", c)
  \/ \E e \in Endpoints :
       \E dg \in Arrivals(e) \cup {NULL} : \E rnd \in SeqSeeds(e) :
         ReadPoll(e, LenBig, dg, rnd)

SpecClose == InitClose /\ [][NextClose]_vars

----------------------------------------------------------------------------
(* A connection that lingers: the short lapses of the retransmission timer,
   a close, then one lapse of LingerStep from the end of the short ones *)

InitLinger == InitFresh /\ ~reliable

NextLinger ==
  \/ Advance(StepShort, T0 + TimerElapsed)
  \/ now = T0 + TimerElapsed
       /\ Advance(LingerStep, T0 + TimerElapsed + LingerStep)
  \/ \E rnd \in SeqSeeds("A") : Create("A", rnd)
  \/ \E c \in fresh["A"] : \E s \in IdSeeds : Connect("A", c, s)
  \/ \E i \in 1 .. Len(conns["A"]) : Close("A", i)
  \/ \E e \in Endpoints :
       \E dg \in Arrivals(e) \cup {NULL} : \E rnd \in SeqSeeds(e) :
         ReadPoll(e, LenBig, dg, rnd)
  \/ \E e \in Endpoints : Tick(e)

SpecLinger == InitLinger /\ [][NextLinger]_vars

----------------------------------------------------------------------------
(* The registry of a socket: B has answered the SYNs of two earlier
   connections of A's address, one with the largest identifier, and has
   started a connection of its own to A; copies of the SYNs are still in the
   network; both sides connect anew, with identifier seeds that collide *)

RegistrySeeds == (0 .. SeedSpan) \cup {U16(IdSeed)}
RegistryPeers == <<1, U16(IdSeed)>>

\* The SYN of a connection of A whose identifier seed is k.
SynOf(k, clock) ==
  rdpConnect(rdpConnCreate("A", SeqSeedA + k, 0), "B", U16(k), clock).out[1]

\* The records B made for the SYNs of RegistryPeers.
Registered(clock) ==
  [j \in 1 .. Len(RegistryPeers) |-> Answered(RegistryPeers[j], clock)]

InitRegistry ==
  \E s \in RegistrySeeds :
    \E own \in {rdpConnect(rdpConnCreate("B", SeqSeedB, 0), "A", s, T0)} :
      /\ findRdpConnInRdpSocket(Registered(T0), "A", s) = 0
      /\ now = T0
      /\ sock = [e \in Endpoints |-> rdpSocketCreate(T0)]
      /\ conns = [e \in Endpoints |->
                   IF e = "B" THEN listNodeAddHead(Registered(T0), own.c)
                   ELSE <<>>]
      /\ fresh = [e \in Endpoints |-> {}]
      /\ reliable = FALSE
      /\ net = {SynOf(RegistryPeers[j], T0) : j \in 1 .. Len(RegistryPeers)}
                 \cup {own.out[1]}
      /\ aborted = [e \in Endpoints |-> ""]
      /\ written = <<>>
      /\ delivered = <<>>
      /\ eofs = <<>>
      /\ nconn = 0

NextRegistry ==
  \/ \E d \in Steps : Advance(d, T0 + MaxElapsed)
  \/ \E e \in Endpoints : \E rnd \in SeqSeeds(e) : Create(e, rnd)
  \/ \E e \in Endpoints : \E c \in fresh[e] : \E s \in RegistrySeeds :
       Connect(e, c, s)
  \/ \E e \in Endpoints :
       \E dg \in Arrivals(e) \cup {NULL} : \E rnd \in SeqSeeds(e) :
         ReadPoll(e, LenBig, dg, rnd)
  \/ \E e \in Endpoints : Tick(e)

SpecRegistry == InitRegistry /\ [][NextRegistry]_vars

----------------------------------------------------------------------------
(* Properties *)

\* The connections of the list of endpoint e.
Conns(e) == {conns[e][i] : i \in 1 .. Len(conns[e])}

\* d is the first bytes of the stream the peer's writes accepted.
IsPrefix(d) ==
  \/ d = NoData
  \/ Len(d) = 1 /\ d[1][2] = 0 /\ d[1][3] <= written[d[1][1]]

\* C1: on every connection, what rdpReadPoll has returned so far is a
\* prefix of what the peer's writes accepted: no byte is delivered twice,
\* skipped or out of order.
C1_DeliveredIsPrefix ==
  \A id \in 1 .. Len(delivered) : IsPrefix(delivered[id])

\* The connections of e, those never connected included.
AllConns(e) == Conns(e) \cup fresh[e]

\* cb is the connection B made for the SYN of ca.
PeerOf(ca, cb) ==
  /\ cb.addr = ca.sock
  /\ cb.recvId = ca.sendId
  /\ cb.sendId = ca.recvId

\* ca completed the handshake and nothing else happened: no close was
\* called on it and no byte was written on any connection.
HandshakeOnly(ca) ==
  /\ ca.state = CS_CONNECTED
  /\ ca.receivedFin = 0
  /\ \A id \in 1 .. Len(written) : written[id] = 0

\* C5: once the SYN of A and the STATE reply of B were exchanged and no
\* data was written, A was reported RDP_CONNECTED once, is CS_CONNECTED and
\* its seqnr is one past the value it was created with; B's connection is
\* still CS_SYN_RECV, no RDP_ACCEPT was reported for it and its seqnr is
\* the value it was created with.
C5_HandshakeAmended ==
  \A ca \in Conns("A") :
    HandshakeOnly(ca) =>
      /\ ca.nConnected = 1
      /\ \E r \in SeqSeeds("A") : ca.seqnr = U16(r + 1)
      /\ \A cb \in Conns("B") :
           PeerOf(ca, cb) =>
             /\ cb.state = CS_SYN_RECV
             /\ cb.nAccept = 0
             /\ \E r \in SeqSeeds("B") : cb.seqnr = U16(r)

\* A completed the handshake with a connection of B, and wrote nothing.
C5_HandshakeDone ==
  \E ca \in Conns("A") : \E cb \in Conns("B") :
    HandshakeOnly(ca) /\ PeerOf(ca, cb) /\ ca.nConnected = 1

\* C5 as the specification words it: after the exchange both sides are
\* CS_CONNECTED, B was reported RDP_ACCEPT and both seqnr advanced by one.
C5_HandshakeOriginal ==
  \A ca \in Conns("A") :
    HandshakeOnly(ca) =>
      /\ ca.nConnected = 1
      /\ \E r \in SeqSeeds("A") : ca.seqnr = U16(r + 1)
      /\ \A cb \in Conns("B") :
           PeerOf(ca, cb) =>
             /\ cb.state = CS_CONNECTED
             /\ cb.nAccept = 1
             /\ \E r \in SeqSeeds("B") : cb.seqnr = U16(r + 1)

\* The events counted for c fit its state.
CountsFit(c) ==
  /\ c.nConnected + c.nAccept <= 1
  /\ c.state \in {CS_UNINITIALIZED, CS_SYN_SENT, CS_SYN_RECV} =>
       c.nConnected + c.nAccept = 0
  /\ c.state \in {CS_CONNECTED, CS_CONNECTED_FULL, CS_FIN_SENT} =>
       c.nConnected + c.nAccept = 1

\* One call took c to d: the handshake events it reported are those of the
\* transition it made.
HandshakeStep(c, d) ==
  /\ d.nConnected - c.nConnected =
       IF c.state = CS_SYN_SENT /\ d.state = CS_CONNECTED THEN 1 ELSE 0
  /\ d.nAccept - c.nAccept =
       IF c.state = CS_SYN_RECV /\ d.state = CS_CONNECTED THEN 1 ELSE 0
  /\ c.state = CS_SYN_SENT => d.state \in {CS_SYN_SENT, CS_CONNECTED, CS_DESTROY}
  /\ c.state = CS_SYN_RECV => d.state \in {CS_SYN_RECV, CS_CONNECTED, CS_DESTROY}

\* C6: RDP_CONNECTED is reported for a connection in the call that takes
\* it from CS_SYN_SENT to CS_CONNECTED and in no other, RDP_ACCEPT in the
\* call that takes it from CS_SYN_RECV to CS_CONNECTED and in no other;
\* whatever is duplicated or retransmitted, no connection is reported more
\* than one of them, once.
C6_ReportedOnce ==
  /\ [](\A e \in Endpoints : \A c \in AllConns(e) : CountsFit(c))
  /\ [][\A e \in Endpoints : \A c \in AllConns(e) : \A d \in AllConns(e)' :
          c.id = d.id => HandshakeStep(c, d)]_vars

\* Both events were reported, on a network that still holds the SYN, the
\* STATE and the DATA packet that caused them.
C6_BothReported ==
  /\ \E c \in Conns("A") : c.nConnected = 1
  /\ \E c \in Conns("B") : c.nAccept = 1 /\ delivered[c.id] # NoData
  /\ {ST_SYN, ST_STATE, ST_DATA} \subseteq {p.type : p \in net}

\* One call took c to d: RDP_POLLOUT is reported when it left
\* CS_CONNECTED_FULL for CS_CONNECTED, and only then.
PolloutStep(c, d) ==
  /\ d.nPollout - c.nPollout =
       IF c.state = CS_CONNECTED_FULL /\ d.state = CS_CONNECTED THEN 1 ELSE 0
  /\ c.state = CS_CONNECTED_FULL /\ d.flightWindow = 0 =>
       d.state # CS_CONNECTED_FULL

\* C7: RDP_POLLOUT is reported for a connection in the call that takes it
\* from CS_CONNECTED_FULL to CS_CONNECTED and in no other; a connection is
\* CS_CONNECTED_FULL only while bytes of it are in flight, and the call
\* that acknowledges the last of them takes it out of that state.
C7_PolloutOnTransition ==
  /\ [](\A e \in Endpoints : \A c \in AllConns(e) :
          c.state = CS_CONNECTED_FULL => c.flightWindow > 0)
  /\ [][\A e \in Endpoints : \A c \in AllConns(e) : \A d \in AllConns(e)' :
          c.id = d.id => PolloutStep(c, d)]_vars

\* RDP_POLLOUT was reported for a connection that has nothing in flight.
C7_PolloutReported ==
  \E c \in Conns("A") :
    c.nPollout = 1 /\ c.state = CS_CONNECTED /\ c.flightWindow = 0

\* The call of rdpWriteVec that gave r on c was refused with errno and
\* changed nothing; smstime is the clock snapshot of the socket before it.
WriteRefused(c, r, errno, smstime) ==
  /\ r.ret = -1
  /\ r.errno = errno
  /\ r.c = c
  /\ r.out = <<>>
  /\ r.mstime = smstime

\* C8: on every connection the program can hold, rdpWriteVec fails with
\* EAGAIN in CS_SYN_SENT and CS_CONNECTED_FULL and with EINVAL in
\* CS_UNINITIALIZED, CS_SYN_RECV, CS_FIN_SENT and CS_DESTROY, sends nothing
\* and leaves every field of the connection, its send ring included, as it
\* was.
C8_WriteRefused ==
  \A e \in Endpoints : \A c \in AllConns(e) : \A n \in WriteSizes \cup {0} :
    \A r \in {rdpWriteVec(c, n, written[c.id], sock[e].mstime, now)} :
      /\ c.state \in {CS_SYN_SENT, CS_CONNECTED_FULL} =>
           WriteRefused(c, r, EAGAIN, sock[e].mstime)
      /\ c.state \in {CS_UNINITIALIZED, CS_SYN_RECV, CS_FIN_SENT, CS_DESTROY} =>
           WriteRefused(c, r, EINVAL, sock[e].mstime)

\* A holds a full connection with data queued while B's is still
\* CS_SYN_RECV: a write is refused on both, for the two reasons.
C8_BothRefusals ==
  /\ \E c \in Conns("A") : c.state = CS_CONNECTED_FULL /\ c.queue > 0
  /\ \E c \in Conns("B") : c.state = CS_SYN_RECV

\* The call of rdpConnClose that gave r on c did what its state asks for.
CloseAsSpecified(c, r) ==
  IF c.state \in {CS_CONNECTED, CS_CONNECTED_FULL}
    THEN IF c.receivedFin = 1
           THEN r.ret = 0 /\ r.out = <<>> /\ r.c = [c EXCEPT !.state = CS_DESTROY]
           ELSE /\ r.c.fail = ""
                /\ r.ret = 0
                /\ r.c.state = CS_FIN_SENT
                /\ r.c.queue = c.queue + 1
                /\ r.c.seqnr = U16(c.seqnr + 1)
                /\ rbufferGet(r.c.outbuf, c.seqnr) # NULL
                /\ rbufferGet(r.c.outbuf, c.seqnr).type = ST_FIN
  ELSE IF c.state = CS_SYN_SENT
    THEN r.ret = 0 /\ r.out = <<>> /\ r.c = [c EXCEPT !.state = CS_DESTROY]
  ELSE r.ret = -1 /\ r.errno = EINVAL /\ r.out = <<>> /\ r.c = c

\* C10: on every connection the program can hold, rdpConnClose queues one
\* FIN and moves to CS_FIN_SENT from CS_CONNECTED and CS_CONNECTED_FULL
\* when no FIN of the peer was received, moves to CS_DESTROY without
\* queueing when one was, and from CS_SYN_SENT; in the other states it
\* fails with EINVAL and changes nothing, so that a second close queues no
\* second FIN.
C10_CloseAsSpecified ==
  \A e \in Endpoints : \A c \in AllConns(e) :
    CloseAsSpecified(c, rdpConnClose(c, sock[e].mstime))

\* The payload bytes of the slot of sequence number s in the send ring of
\* c, 0 when the slot is outside the queue.
QueuedBytes(c, s) ==
  IF U16(c.seqnr - 1 - s) < c.queue /\ rbufferGet(c.outbuf, s) # NULL
    THEN rbufferGet(c.outbuf, s).payload
    ELSE 0

\* The sequence numbers of the slots a write on c can touch: the last one
\* queued and the ones queued by the write that led to c2.
Touched(c, c2) == {U16(c.seqnr - 1 + k) : k \in 0 .. U16(c2.seqnr - c.seqnr)}

RECURSIVE AppendedOver(_, _, _)
AppendedOver(c, c2, seqs) ==
  IF seqs = {} THEN 0
  ELSE Local(CHOOSE s \in seqs : TRUE, LAMBDA s :
         (QueuedBytes(c2, s) - QueuedBytes(c, s))
           + AppendedOver(c, c2, seqs \ {s}))

\* The number of payload bytes the send queue of c2 holds more than that
\* of c, c2 being c after a write.
Appended(c, c2) == AppendedOver(c, c2, Touched(c, c2))

\* The flight window of c has no room for a packet of maximum size.
WindowFullOnEntry(c) ==
  c.flightWindow + getMaxPacketPayloadSize
    > (IF c.flightWindowLimit < c.recvWindowPeer THEN c.flightWindowLimit
                                                  ELSE c.recvWindowPeer)

\* The write r of n bytes on c was refused for the window and queued
\* nothing.
RefusedFull(c, r) ==
  /\ r.ret = -1
  /\ r.errno = EAGAIN
  /\ r.c = [c EXCEPT !.state = CS_CONNECTED_FULL]
  /\ r.out = <<>>

NextInOrder(c, dg) ==
  /\ dg.type = ST_DATA
  /\ c.state \in {CS_CONNECTED, CS_CONNECTED_FULL}
  /\ dg.seqnr = U16(c.acknr + 1)
  /\ ~AckNrInvalid(c, dg.acknr)
  /\ DataSize(dg.data) > 0

\* The poll r of endpoint e reported RDP_ERROR, copied nothing to the
\* buffer and left the acknowledgement number and the receive ring of
\* connection i as they were.
NotConsumed(e, i, r) ==
  /\ r.events = {RDP_ERROR}
  /\ r.ret = -1
  /\ r.data = NoData
  /\ r.conns[i].acknr = conns[e][i].acknr
  /\ r.conns[i].inbuf = conns[e][i].inbuf

\* C11: rdpReadPoll called with a buffer smaller than the payload of the
\* next packet in order, whether that packet waits in the receive ring or
\* is the datagram recvfrom returns, reports RDP_ERROR and consumes
\* nothing: the acknowledgement number stays and no part of the payload is
\* handed to the caller.
C11_SmallBufferRefused ==
  \A e \in Endpoints : \A len \in Lens :
    \A d \in {Drain(conns[e], 1, len, sock[e].mstime)} :
      /\ d.hit =>
           \A p \in {rbufferGet(conns[e][d.i].inbuf, conns[e][d.i].acknr + 1)} :
             p # NULL /\ conns[e][d.i].outOfOrderCnt # 0 /\ p.prefix > len =>
               NotConsumed(e, d.i, rdpReadPoll(e, sock[e], conns[e], len, NULL,
                                               now, SeqSeedA, nconn + 1))
      /\ ~d.hit =>
           \A dg \in Arrivals(e) :
             \A i \in {findRdpConnInRdpSocket(conns[e], dg.src, dg.connId)} :
               i # 0 /\ NextInOrder(conns[e][i], dg)
                 /\ DataSize(dg.data) > len =>
                   NotConsumed(e, i, rdpReadPoll(e, sock[e], conns[e], len, dg,
                                                 now, SeqSeedA, nconn + 1))

\* C12: the list of connections of a socket never holds more than
\* RDP_MAX_CONNS_PER_RDPSOCKET records: the SYN or the rdpConnect that
\* would add one more adds none.
C12_ConnsBounded ==
  \A e \in Endpoints : Len(conns[e]) <= RDP_MAX_CONNS_PER_RDPSOCKET

\* The packet rdpConnKeepAlive sends for connection c.
KeepAliveOf(c) == rdpConnKeepAlive(Result(c, 0, NoErrno), 0).out[1]

\* Connection c has nothing to retransmit, sent nothing for
\* RDP_KEEPALIVE_INTERVAL, and the tick of its socket e, called now, runs
\* the checks.
IdleAtTick(e, c) ==
  /\ c.state \in {CS_CONNECTED, CS_CONNECTED_FULL}
  /\ c.queue = 0
  /\ now >= c.lastSentPacket + RDP_KEEPALIVE_INTERVAL
  /\ now >= sock[e].lastCheck + sock[e].nextCheckTimeout

\* dg is a keepalive of cp, the peer of connection c of e, which is
\* CS_CONNECTED: cp sent it RDP_KEEPALIVE_INTERVAL or more after the last
\* packet it received, and holds nothing to send.
KeepAliveFor(c, cp, dg) ==
  /\ c.state = CS_CONNECTED
  /\ PeerOf(cp, c)
  /\ cp.state \in {CS_CONNECTED, CS_CONNECTED_FULL}
  /\ cp.queue = 0
  /\ cp.lastSentPacket >= cp.lastReceivedPacket + RDP_KEEPALIVE_INTERVAL
  /\ dg = KeepAliveOf(cp)

\* Among the datagrams out there is a ST_STATE packet of connection c.
StateSent(c, out) ==
  \E k \in 1 .. Len(out) :
    out[k].type = ST_STATE /\ out[k].src = c.sock /\ out[k].connId = c.sendId

\* The tick sends a keepalive for every connected connection that sent
\* nothing for RDP_KEEPALIVE_INTERVAL.
KeepAliveEmitted ==
  \A e \in Endpoints : \A c \in Conns(e) :
    IdleAtTick(e, c) /\ aborted[e] = "" =>
      \E t \in {rdpSocketIntervalAction(sock[e], conns[e], now)} :
        \E k \in 1 .. Len(t.out) :
          /\ t.out[k].type = ST_STATE
          /\ t.out[k].src = e /\ t.out[k].connId = c.sendId
          /\ t.out[k].acknr = U16(c.acknr - 1)

\* A connected connection that receives a keepalive of its peer has sent a
\* ST_STATE packet when that rdpReadPoll and the next one, which finds no
\* datagram and flushes the acknowledgements, are done.
KeepAliveAnswered ==
  \A e \in Endpoints : \A dg \in Arrivals(e) :
    \A i \in {findRdpConnInRdpSocket(conns[e], dg.src, dg.connId)} :
      i # 0 /\ aborted[e] = "" /\ ~Drain(conns[e], 1, LenBig, now).hit
        /\ (\E cp \in Conns(Peer(e)) : KeepAliveFor(conns[e][i], cp, dg)) =>
          \E r1 \in {rdpReadPoll(e, sock[e], conns[e], LenBig, dg, now,
                                  SeqSeedA, nconn + 1)} :
            \E r2 \in {rdpReadPoll(e, r1.s, r1.conns, LenBig, NULL, now,
                                    SeqSeedA, nconn + 1)} :
              StateSent(conns[e][i], r1.out \o r2.out)

\* C13: a connection in CS_CONNECTED or CS_CONNECTED_FULL that sent no
\* packet for RDP_KEEPALIVE_INTERVAL has the tick send a ST_STATE packet
\* whose acknr is its acknr minus one, and the peer that receives this
\* packet in CS_CONNECTED answers with a ST_STATE packet by its next flush
\* of acknowledgements.
C13_KeepAliveAnswered == KeepAliveEmitted /\ KeepAliveAnswered

\* The state of connection object id on endpoint e, "none" when e holds no
\* such object: it was not made yet, or it was destroyed.
ObjState(e, id) ==
  IF \E c \in AllConns(e) : c.id = id
    THEN (CHOOSE c \in AllConns(e) : c.id = id).state
    ELSE "none"

\* The changes of state one call can make: the transitions of the
\* protocol, the making of an object by rdpConnCreate or by a SYN, and the
\* removal of a destroyed connection by the tick, which can come in the
\* call that destroyed it.
Transitions ==
  { <<"none", CS_UNINITIALIZED>>, <<"none", CS_SYN_RECV>>,
    <<CS_UNINITIALIZED, CS_SYN_SENT>>,
    <<CS_SYN_SENT, CS_CONNECTED>>, <<CS_SYN_RECV, CS_CONNECTED>>,
    <<CS_CONNECTED, CS_CONNECTED_FULL>>, <<CS_CONNECTED_FULL, CS_CONNECTED>>,
    <<CS_CONNECTED, CS_FIN_SENT>>, <<CS_CONNECTED_FULL, CS_FIN_SENT>>,
    <<CS_CONNECTED, CS_DESTROY>>, <<CS_CONNECTED_FULL, CS_DESTROY>>,
    <<CS_FIN_SENT, CS_DESTROY>>, <<CS_SYN_RECV, CS_DESTROY>>,
    <<CS_SYN_SENT, CS_DESTROY>>,
    <<CS_DESTROY, "none">>, <<CS_FIN_SENT, "none">>, <<CS_SYN_RECV, "none">> }

\* The step is a rdpReadPoll of e that receives a packet of the given type.
Receives(e, type) ==
  \E len \in Lens : \E dg \in Arrivals(e) : \E rnd \in SeqSeeds(e) :
    dg.type = type /\ ReadPoll(e, len, dg, rnd)

\* The step is a tick of e that runs the checks.
Checks(e) ==
  /\ now >= sock[e].lastCheck + sock[e].nextCheckTimeout
  /\ Tick(e)

\* The change of state of object id on e in one step is a listed one, and
\* the handshake completes on the packet that is to complete it.
TransitionStep(e, id) ==
  /\ ObjState(e, id) # ObjState(e, id)' =>
       <<ObjState(e, id), ObjState(e, id)'>> \in Transitions
  /\ ObjState(e, id) = CS_SYN_SENT /\ ObjState(e, id)' = CS_CONNECTED =>
       Receives(e, ST_STATE)
  /\ ObjState(e, id) = CS_SYN_RECV /\ ObjState(e, id)' = CS_CONNECTED =>
       Receives(e, ST_DATA)
  /\ ObjState(e, id)' = "none" /\ ObjState(e, id) # "none" => Checks(e)

\* No datagram changes a connection of e that is CS_DESTROY, and rdpReadPoll
\* sends nothing for it.
DestroyIgnores(e) ==
  \A len \in Lens : \A dg \in Arrivals(e) :
    \A i \in {findRdpConnInRdpSocket(conns[e], dg.src,
                 IF dg.type = ST_SYN THEN U16(dg.connId + 1) ELSE dg.connId)} :
      i # 0 /\ conns[e][i].state = CS_DESTROY
        /\ ~Drain(conns[e], 1, len, sock[e].mstime).hit =>
          \A r \in {rdpReadPoll(e, sock[e], conns[e], len, dg, now, SeqSeedA,
                                 nconn + 1)} :
            r.conns = conns[e] /\ r.out = <<>> /\ r.ret = -1

\* A tick of e that runs the checks leaves no connection in CS_DESTROY in
\* the list.
DestroyReaped(e) ==
  now >= sock[e].lastCheck + sock[e].nextCheckTimeout =>
    \A t \in {rdpSocketIntervalAction(sock[e], conns[e], now)} :
      Failure(t.conns) = 0 =>
        \A i \in 1 .. Len(t.conns) : t.conns[i].state # CS_DESTROY

\* C14: every change of state of a connection is one of the transitions
\* of the protocol, CS_SYN_SENT to CS_CONNECTED on a ST_STATE packet only
\* and CS_SYN_RECV to CS_CONNECTED on a ST_DATA packet only; a connection
\* in CS_DESTROY changes no more, no packet changes it, and the next tick
\* that runs the checks removes it from the list.
C14_Transitions ==
  /\ [](\A e \in Endpoints : DestroyIgnores(e) /\ DestroyReaped(e))
  /\ [][\A e \in Endpoints : \A id \in 1 .. MaxObjs :
          TransitionStep(e, id)]_vars

\* A's connection was connected, closed and destroyed while a packet for
\* it is still on the way, and B's connection was accepted.
C14_DestroyedWithPacket ==
  /\ \E c \in Conns("A") :
       /\ c.state = CS_DESTROY /\ c.nConnected = 1
       /\ \E dg \in Arrivals("A") : dg.connId = c.recvId
  /\ \E c \in Conns("B") : c.nAccept = 1

\* The extension chain of datagram dg declares a record longer than the
\* bytes that follow it in the datagram.
Undecodable(dg) ==
  /\ dg.type \in {ST_STATE, ST_DATA, ST_FIN}
  /\ dg.reserve # 0
  /\ dg.sack.len > dg.sack.size + DataSize(dg.data)

\* C15: rdpReadPoll drops a ST_STATE, ST_DATA or ST_FIN datagram that it
\* cannot decode: it reports no RDP_ERROR, fails no assertion, sends
\* nothing and changes no field of any connection.
C15_UndecodableDropped ==
  \A e \in Endpoints : \A dg \in Arrivals(e) :
    Undecodable(dg) /\ ~Drain(conns[e], 1, LenBig, sock[e].mstime).hit =>
      \A r \in {rdpReadPoll(e, sock[e], conns[e], LenBig, dg, now, SeqSeedA,
                             nconn + 1)} :
        /\ RDP_ERROR \notin r.events
        /\ Failure(r.conns) = 0
        /\ r.conns = conns[e]
        /\ r.out = <<>>

\* C16: a connection whose queue is empty has no byte in flight, in every
\* state, after selective acknowledgements, the marking of packets at the
\* expiry of the timer and their retransmission included; the assertion
\* of buildSendPacket on it never fails.
C16_EmptyQueueNoFlight ==
  \A e \in Endpoints :
    /\ aborted[e] # "buildSendPacket:flightWindow"
    /\ \A c \in AllConns(e) : c.queue = 0 => c.flightWindow = 0

\* Everything A wrote was acknowledged and its queue is empty, after the
\* timer expired on its SYN, which was marked and retransmitted
\* (oldestResent names the slot of the SYN), and after B acknowledged a data
\* packet selectively.
C16_DrainedAfterLoss ==
  /\ \E c \in Conns("A") :
       /\ c.queue = 0 /\ c.flightWindow = 0
       /\ written[c.id] = MaxStream
       /\ c.oldestResent = U16(SeqSeedA)
  /\ \E p \in net : p.dst = "A" /\ p.type = ST_STATE /\ p.reserve = 1

\* The sequence numbers of the send slots a connection still waits on,
\* seqnr - queue .. seqnr - 1.
Outstanding(c) == {U16(c.seqnr - k) : k \in 1 .. c.queue}

\* A slot that counts in flightWindow: sent, not marked for retransmission.
InFlight(pw) == pw # NULL /\ pw.transmissions >= 1 /\ pw.needResend = 0

\* C17 (amended): between any two calls a connection with an empty queue
\* has no byte in flight, and a connection with no byte in flight and a
\* non-empty queue waits only on slots that carry no payload (SYN, FIN),
\* were not sent yet or are marked for retransmission.
C17_FlightAmended ==
  \A e \in Endpoints : \A c \in AllConns(e) :
    /\ c.queue = 0 => c.flightWindow = 0
    /\ c.queue > 0 /\ c.flightWindow = 0 =>
         \A i \in Outstanding(c) :
           InFlight(rbufferGet(c.outbuf, i)) =>
             rbufferGet(c.outbuf, i).payload = 0

\* A has only its SYN outstanding, and nothing in flight.
C17_OnlySynOutstanding ==
  \E c \in Conns("A") :
    /\ c.state = CS_SYN_SENT /\ c.queue = 1 /\ c.flightWindow = 0
    /\ InFlight(rbufferGet(c.outbuf, c.seqnr - 1))
    /\ rbufferGet(c.outbuf, c.seqnr - 1).type = ST_SYN

\* C17 (as stated): the queue is empty exactly when no byte is in flight.
C17_FlightIffQueue ==
  \A e \in Endpoints : \A c \in AllConns(e) :
    c.queue = 0 <=> c.flightWindow = 0

\* The assertions on the oldest outstanding slot: after the loop of the
\* cumulative acknowledgement, in selectiveAck, rdpConnCheck, resizeWindow
\* and updateRetransmitTimeout.
OldestAssertions ==
  {"rdpReadPoll:oldest", "selectiveAck:oldest", "rdpConnCheck:oldest",
   "resizeWindow:pw", "updateRetransmitTimeout"}

RECURSIVE FlightOf(_, _)
FlightOf(c, S) ==
  IF S = {} THEN 0
  ELSE LET i == CHOOSE x \in S : TRUE
           pw == rbufferGet(c.outbuf, i)
       IN (IF InFlight(pw) THEN pw.payload ELSE 0) + FlightOf(c, S \ {i})

\* C19: in every state flightWindow is the sum of the payloads of the
\* outstanding slots that were sent and are not marked for retransmission,
\* and the assertions flightWindow >= payload of ackPacket and of the
\* marking loop of rdpConnCheck never fail.
C19_FlightIsSum ==
  \A e \in Endpoints :
    /\ aborted[e] \notin {"ackPacket:flightWindow",
                          "rdpConnCheck:flightWindow"}
    /\ \A c \in AllConns(e) : c.flightWindow = FlightOf(c, Outstanding(c))

\* A waits on two data packets: the second was acknowledged selectively and
\* its slot is empty, the first was marked at the expiry of the timer and
\* sent again, and its payload alone is in flight.
C19_ResentBesideHole ==
  \E c \in Conns("A") :
    /\ c.queue = 2 /\ c.flightWindow = WriteSmall
    /\ rbufferGet(c.outbuf, c.seqnr - 1) = NULL
    /\ InFlight(rbufferGet(c.outbuf, c.seqnr - 2))
    /\ rbufferGet(c.outbuf, c.seqnr - 2).type = ST_DATA
    /\ rbufferGet(c.outbuf, c.seqnr - 2).transmissions >= 2

\* C20: in every state the receive slot at acknr + 1 of a connection is
\* empty, and the assertion of sendAck on that slot, made when it builds a
\* selective acknowledgement, never fails.
C20_NextSlotEmpty ==
  \A e \in Endpoints :
    /\ aborted[e] # "sendAck:acknr+1"
    /\ \A c \in AllConns(e) : rbufferGet(c.inbuf, c.acknr + 1) = NULL

\* The tick of e, called now, runs the checks and finds the retransmission
\* deadline of connection c reached.
DeadlineAtTick(e, c) ==
  /\ aborted[e] = ""
  /\ now >= sock[e].lastCheck + sock[e].nextCheckTimeout
  /\ c.state \in {CS_SYN_SENT, CS_SYN_RECV, CS_CONNECTED, CS_CONNECTED_FULL,
                  CS_FIN_SENT}
  /\ ~WLess(WOf(now), c.retransmitTicker)

\* What the specification gives for the timeout of connection c2 at the
\* time clock: max(0, nextRetransmitTimeout - (clock - sentTime of the
\* oldest unacknowledged packet)), nextRetransmitTimeout with an empty queue.
TimeoutWanted(c2, clock) ==
  IF c2.queue = 0 THEN c2.nextRetransmitTimeout
  ELSE max(0, c2.nextRetransmitTimeout
                - (clock - rbufferGet(c2.outbuf, c2.seqnr - c2.queue).sentTime))

\* C21: after a tick that finds the deadline of a connection reached and
\* leaves it alive, retransmitTimeout is max(0, nextRetransmitTimeout -
\* (now - sentTime of the oldest unacknowledged packet)) and
\* retransmitTicker is now + retransmitTimeout; retransmitTimeout is at
\* most nextRetransmitTimeout.
C21_TimeoutFromOldest ==
  \A e \in Endpoints : \A c \in Conns(e) :
    DeadlineAtTick(e, c) =>
      \E t \in {rdpSocketIntervalAction(sock[e], conns[e], now)} :
        \A k \in 1 .. Len(t.conns) :
          t.conns[k].id = c.id /\ Failure(t.conns) = 0
            /\ t.conns[k].state # CS_DESTROY =>
              /\ t.conns[k].retransmitTimeout
                   = WOf(TimeoutWanted(t.conns[k], now))
              /\ t.conns[k].retransmitTicker
                   = WOf(now + TimeoutWanted(t.conns[k], now))
              /\ ~WLess(WOf(t.conns[k].nextRetransmitTimeout),
                        t.conns[k].retransmitTimeout)

\* C22: a tick that runs the checks when a CS_FIN_SENT or CS_SYN_RECV
\* connection has received no packet for RDP_WAIT_FIN_SENT (or
\* RDP_WAIT_SYN_RECV) destroys the connection, whatever its retransmission
\* timer holds: with ticks called for ever no connection stays in these
\* states.
C22_LingerDestroyed ==
  \A e \in Endpoints : \A c \in Conns(e) :
    /\ aborted[e] = ""
    /\ now >= sock[e].lastCheck + sock[e].nextCheckTimeout
    /\ \/ c.state = CS_FIN_SENT
            /\ now >= c.lastReceivedPacket + RDP_WAIT_FIN_SENT
       \/ c.state = CS_SYN_RECV
            /\ now >= c.lastReceivedPacket + RDP_WAIT_SYN_RECV
    => \E t \in {rdpSocketIntervalAction(sock[e], conns[e], now)} :
         Failure(t.conns) = 0 =>
           \A k \in 1 .. Len(t.conns) : t.conns[k].id # c.id

\* C23 (amended): the initiator (A) sets recvId = idSeed and sendId =
\* idSeed + 1 and sends its SYN with connId = recvId; the responder (B) takes
\* the connId of the SYN as its sendId and connId + 1 as its recvId; every
\* packet that is not a SYN carries in connId the recvId of the connection
\* that receives it.
C23_IdsAmended ==
  /\ \A c \in Conns("A") :
       c.recvId = c.idSeed /\ c.sendId = U16(c.idSeed + 1)
  /\ \A c \in Conns("B") :
       c.sendId = c.idSeed /\ c.recvId = U16(c.idSeed + 1)
  /\ \A p \in net :
       /\ \A c \in Conns(p.src) :
            c.addr = p.dst =>
              p.connId = (IF p.type = ST_SYN THEN c.recvId ELSE c.sendId)
       /\ \A c \in Conns(p.dst) :
            c.addr = p.src =>
              IF p.type = ST_SYN
                THEN c.sendId = p.connId /\ c.recvId = U16(p.connId + 1)
                ELSE c.recvId = p.connId

\* Both sides hold their connection, and the SYN, B's answer and a data
\* packet of A were sent.
C23_PacketsBothWays ==
  /\ Conns("A") # {} /\ Conns("B") # {}
  /\ \E p \in net : p.type = ST_SYN /\ p.src = "A"
  /\ \E p \in net : p.type = ST_STATE /\ p.src = "B"
  /\ \E p \in net : p.type = ST_DATA /\ p.src = "A"

\* C23 (as stated): the initiator sets recvId = idSeed + 1 and sendId =
\* idSeed.
C23_IdsOriginal ==
  \A c \in Conns("A") :
    c.recvId = U16(c.idSeed + 1) /\ c.sendId = c.idSeed

\* C24: in every state no two connections of the list of a socket have the
\* same peer address and the same recvId.
C24_RegistryUnique ==
  \A e \in Endpoints :
    Cardinality({<<conns[e][i].addr, conns[e][i].addrlen, conns[e][i].recvId>> :
                   i \in 1 .. Len(conns[e])}) = Len(conns[e])

\* B holds the connection it started, the record whose recvId wrapped to 0,
\* which answered a repeated SYN, and a record made for the SYN of a new
\* connection of A.
C24_MixedRegistry ==
  /\ Len(conns["B"]) = Len(RegistryPeers) + 2
  /\ Conns("A") # {}
  /\ \E c \in Conns("B") : c.state = CS_SYN_SENT
  /\ \E c \in Conns("B") : c.state = CS_SYN_RECV /\ c.recvId = 0
  /\ \E p \in net :
       p.src = "B" /\ p.type = ST_STATE /\ p.connId = U16(IdSeed)

\* C25: the writes leave at most RDP_QUEUE_SIZE_MAX - 1 slots in the queue
\* of a connection, an rdpConnClose that sends a FIN queues it in one more
\* slot, and the assertion queue < RDP_QUEUE_SIZE_MAX of buildSendPacket
\* never fails.
C25_SlotKeptForFin ==
  \A e \in Endpoints :
    /\ aborted[e] # "buildSendPacket:queue"
    /\ \A c \in AllConns(e) :
         /\ c.queue <= (IF c.state \in {CS_FIN_SENT, CS_DESTROY}
                          THEN RDP_QUEUE_SIZE_MAX
                          ELSE RDP_QUEUE_SIZE_MAX - 1)
         /\ c.state \in {CS_CONNECTED, CS_CONNECTED_FULL}
              /\ c.receivedFin = 0 =>
              \E k \in {rdpConnClose(c, sock[e].mstime)} :
                /\ k.c.fail # "buildSendPacket:queue"
                /\ k.c.fail = "" =>
                     /\ k.c.queue = c.queue + 1
                     /\ rbufferGet(k.c.outbuf, c.seqnr) # NULL
                     /\ rbufferGet(k.c.outbuf, c.seqnr).type = ST_FIN

\* A write of a full packet on a queue two slots below the limit, whose last
\* slot is short and untransmitted, fills that slot and creates one more,
\* and rdpConnClose then queues its FIN in the slot kept for it.
C25_ExtendsAndCreates ==
  \E c \in Conns("A") :
    LET last == rbufferGet(c.outbuf, c.seqnr - 1)
        w == rdpWriteVec(c, getMaxPacketPayloadSize, written[c.id],
                         sock["A"].mstime, now)
        k == rdpConnClose(w.c, w.mstime)
    IN /\ c.queue = RDP_QUEUE_SIZE_MAX - 2
       /\ last # NULL
       /\ last.transmissions = 0
       /\ last.payload \in 1 .. (getMaxPacketPayloadSize - 1)
       /\ w.ret = getMaxPacketPayloadSize
       /\ w.c.fail = ""
       /\ w.c.queue = RDP_QUEUE_SIZE_MAX - 1
       /\ rbufferGet(w.c.outbuf, c.seqnr - 1).payload
            = getMaxPacketPayloadSize
       /\ rbufferGet(w.c.outbuf, c.seqnr).payload = last.payload
       /\ k.c.fail = ""
       /\ k.c.state = CS_FIN_SENT
       /\ k.c.queue = RDP_QUEUE_SIZE_MAX

\* C26: selectiveAck never finds a slot that was not transmitted, so its
\* assert(0) is never reached.
C26_SAckSlotsTransmitted ==
  \A e \in Endpoints : aborted[e] # "selectiveAck:transmissions"

\* The datagrams in the network.
Packets == IF reliable THEN {net[k] : k \in 1 .. Len(net)} ELSE net

\* The SACK records that have arrived for the connections of e.
SAcksFor(e) == {p \in Packets : p.dst = e /\ p.type = ST_STATE /\ p.reserve = 1}

\* The sequence numbers of the queue of c whose slot differs in c2.
SAckChanged(c, c2) ==
  {s \in Outstanding(c) : rbufferGet(c2.outbuf, s) # rbufferGet(c.outbuf, s)}

\* Bit s - startSeqnr of the record p is set.
SAckBit(p, s) ==
  /\ U16(s - (p.acknr + 2)) < p.sack.len * 8
  /\ U16(s - (p.acknr + 2)) \in p.sack.bits

\* C27: selectiveAck frees a slot only if its bit is set and its sequence
\* number is in the queue, after the oldest slot; it changes no other slot,
\* and neither seqnr nor queue.
C27_SAckFreesMarked ==
  \A e \in Endpoints : \A c \in Conns(e) : \A p \in SAcksFor(e) :
    c.queue > 0 =>
      \E c2 \in {selectiveAck(c, p.acknr + 2, p.sack.bits, p.sack.len, now)} :
        /\ c2.seqnr = c.seqnr
        /\ c2.queue = c.queue
        /\ c2.outbuf.mask = c.outbuf.mask
        /\ \A i \in 0 .. c.outbuf.mask :
             rbufferGet(c2.outbuf, i) # rbufferGet(c.outbuf, i) =>
               \E s \in SAckChanged(c, c2) : s % (c.outbuf.mask + 1) = i
        /\ \A s \in SAckChanged(c, c2) :
             /\ rbufferGet(c2.outbuf, s) = NULL
             /\ s # U16(c.seqnr - c.queue)
             /\ SAckBit(p, s)

\* A SACK record has arrived whose set bit frees a slot of the queue while
\* the oldest slot and a later one, whose bit is clear, stay.
C27_FreesOneOfThree ==
  \E c \in Conns("A") : \E p \in SAcksFor("A") :
    \E c2 \in {selectiveAck(c, p.acknr + 2, p.sack.bits, p.sack.len, now)} :
      /\ c.queue = 3
      /\ c2.fail = ""
      /\ SAckChanged(c, c2) = {U16(c.seqnr - 2)}
      /\ rbufferGet(c2.outbuf, c.seqnr - 3) # NULL
      /\ rbufferGet(c2.outbuf, c.seqnr - 1) # NULL
      /\ ~SAckBit(p, U16(c.seqnr - 1))

\* The acknr of the datagram p is later than the last sequence number c
\* sent, or more than RDP_ACK_NR_RECV_BEHIND_ALLOWED before the one that
\* precedes its queue, by the signed distance of 16 bits.
AckNrLate(c, p) == S16(p.acknr - (c.seqnr - 1)) > 0
AckNrBehind(c, p) ==
  S16((c.seqnr - c.queue - 1) - p.acknr) > RDP_ACK_NR_RECV_BEHIND_ALLOWED

\* The datagrams of a connection that rdpReadPoll on e can take now, each
\* with the place of its connection in the list.
Taking(e) ==
  {t \in {[p |-> p, i |-> findRdpConnInRdpSocket(conns[e], p.src, p.connId)] :
            p \in {q \in Arrivals(e) :
                     q.type \in {ST_STATE, ST_DATA, ST_FIN}}} :
     /\ t.i # 0
     /\ conns[e][t.i].state # CS_DESTROY
     /\ ~Drain(conns[e], 1, LenBig, sock[e].mstime).hit}

\* C28: a datagram whose acknr is late or too far behind is dropped: the
\* call leaves every connection as it was, sends nothing and returns -1.
C28_AckNrOutOfRangeDropped ==
  \A e \in Endpoints : \A t \in Taking(e) :
    AckNrLate(conns[e][t.i], t.p) \/ AckNrBehind(conns[e][t.i], t.p) =>
      \E r \in {rdpReadPoll(e, sock[e], conns[e], LenBig, t.p, now,
                            SeqSeedB, nconn + 1)} :
        /\ r.conns = conns[e]
        /\ r.out = <<>>
        /\ r.ret = -1

\* A has two datagrams of B to take, one whose acknr is as far behind as a
\* datagram may be and is processed, one a step further and dropped.
C28_BehindByTenAndEleven ==
  \E t \in Taking("A") : \E u \in Taking("A") :
    LET c == conns["A"][t.i]
        rt == rdpReadPoll("A", sock["A"], conns["A"], LenBig, t.p, now,
                          SeqSeedA, nconn + 1)
        ru == rdpReadPoll("A", sock["A"], conns["A"], LenBig, u.p, now,
                          SeqSeedA, nconn + 1)
    IN /\ t.i = u.i
       /\ S16((c.seqnr - c.queue - 1) - t.p.acknr)
            = RDP_ACK_NR_RECV_BEHIND_ALLOWED
       /\ S16((c.seqnr - c.queue - 1) - u.p.acknr)
            = RDP_ACK_NR_RECV_BEHIND_ALLOWED + 1
       /\ rt.conns # conns["A"]
       /\ ru.conns = conns["A"]

\* What the specification gives for flightWindowLimit after a timeout of c
\* that is not its first: half of it if the oldest unacknowledged sequence
\* number is the one recorded, twice as much if not, within the limits.
WindowWanted(c) ==
  LET t == IF U16(c.oldestResent) = U16(c.seqnr - c.queue)
             THEN c.flightWindowLimit \div 2
             ELSE c.flightWindowLimit * 2
  IN min(RDP_WINDOW_SIZE_MAX, max(getMaxPacketPayloadSize, t))

\* The oldest packet of c was retransmitted: a timeout of c has run before.
TimedOutBefore(c) ==
  /\ c.queue > 0
  /\ rbufferGet(c.outbuf, c.seqnr - c.queue) # NULL
  /\ rbufferGet(c.outbuf, c.seqnr - c.queue).transmissions >= 2

\* C29: a tick that finds the deadline of a connection reached, its queue
\* not empty and a timeout behind it halves flightWindowLimit if the oldest
\* unacknowledged sequence number (modulo 2^16) is the one recorded at the
\* timeout before, doubles it otherwise, within [MSS, 16 MiB], and leaves
\* that sequence number recorded.
C29_WindowResized ==
  \A e \in Endpoints : \A c \in Conns(e) :
    DeadlineAtTick(e, c) /\ TimedOutBefore(c) =>
      \E t \in {rdpSocketIntervalAction(sock[e], conns[e], now)} :
        \A k \in 1 .. Len(t.conns) :
          t.conns[k].id = c.id /\ Failure(t.conns) = 0
            /\ t.conns[k].state # CS_DESTROY =>
              /\ t.conns[k].flightWindowLimit = WindowWanted(c)
              /\ U16(t.conns[k].oldestResent) = U16(c.seqnr - c.queue)

\* The datagram t.p is one that rdpReadPoll on e takes for out of order on
\* a connection that has seen the FIN of its peer.
OutOfOrderPastFin(e, t) ==
  LET c == conns[e][t.i]
      seqCnt == U16(t.p.seqnr - c.acknr - 1)
  IN /\ aborted[e] = ""
     /\ c.receivedFin = 1
     /\ c.state \in {CS_CONNECTED, CS_CONNECTED_FULL}
     /\ t.p.type \in {ST_DATA, ST_FIN}
     /\ t.p.reserve = 0
     /\ ~AckNrLate(c, t.p) /\ ~AckNrBehind(c, t.p)
     /\ seqCnt \in 1 .. (RDP_QUEUE_SIZE_MAX - 1)

\* C30: once the FIN was seen, a packet out of order is dropped if its
\* sequence number is after eofseqnr by the signed distance of 16 bits, and
\* is in the receive ring after the call if not.
C30_EofBySignedDistance ==
  \A e \in Endpoints : \A t \in Taking(e) :
    OutOfOrderPastFin(e, t) =>
      \E r \in {rdpReadPoll(e, sock[e], conns[e], LenBig, t.p, now, SeqSeedB,
                            nconn + 1)} :
        IF S16(t.p.seqnr - conns[e][t.i].eofseqnr) > 0
          THEN r.conns[t.i].inbuf = conns[e][t.i].inbuf
          ELSE rbufferGet(r.conns[t.i].inbuf, t.p.seqnr) # NULL

\* The connections that sendAck builds a SACK extension for.
WithSAck(e) ==
  {c \in AllConns(e) : /\ c.fail = ""
                       /\ c.outOfOrderCnt # 0
                       /\ c.state # CS_SYN_RECV
                       /\ c.receivedFinCompleted = 0
                       /\ rbufferGet(c.inbuf, c.acknr + 1) = NULL}

\* The STATE packet sendAck builds for c.
AckOf(e, c) == sendAck([c |-> c, out |-> <<>>], sock[e].mstime).out[1]

\* C31: in every STATE packet that sendAck builds with a SACK extension, the
\* len byte of the extension is a multiple of 4, is at least 4, and is the
\* number of mask bytes placed in the packet, whatever the number of packets
\* held out of order.
C31_SAckLenIsMaskSize ==
  \A e \in Endpoints : \A c \in WithSAck(e) :
    \A p \in {AckOf(e, c)} :
      /\ p.reserve = 1
      /\ p.sack.len % 4 = 0
      /\ p.sack.len >= 4
      /\ p.sack.len = p.sack.size

\* C32: in every STATE packet that sendAck builds with a SACK extension, the
\* bit at each offset i of the mask is set if and only if the slot of the
\* receive ring at acknr + 2 + i is populated.
C32_SAckBitsAreSlots ==
  \A e \in Endpoints : \A c \in WithSAck(e) :
    \A p \in {AckOf(e, c)} :
      \A i \in 0 .. (p.sack.size * 8 - 1) :
        (i \in p.sack.bits) <=> (rbufferGet(c.inbuf, c.acknr + 2 + i) # NULL)

\* B holds packets out of order in a ring of 128 slots, some of them behind
\* the first 32 bits of the mask, and the mask of its STATE packet is as
\* long as the ring of 64 slots it had before.
C32_MaskOfTwoWords ==
  \E c \in WithSAck("B") : \E p \in {AckOf("B", c)} :
    /\ c.inbuf.mask = 2 * RbufferInitSize - 1
    /\ p.sack.size = 8
    /\ \E i \in p.sack.bits : i >= 32
    /\ \E i \in 0 .. 63 : i \notin p.sack.bits

\* The STATE packets in out that carry the acknr the connection c has.
AcksOf(c, out) ==
  {k \in 1 .. Len(out) : /\ out[k].type = ST_STATE
                         /\ out[k].src = c.sock
                         /\ out[k].dst = c.addr
                         /\ out[k].connId = c.sendId
                         /\ out[k].acknr = c.acknr}

\* C33: needSendAck is cleared only by sending a STATE packet that carries
\* the acknr of the connection: after rdpSocketIntervalAction, which sends
\* the keepalives, a connection that had an acknowledgement pending has it
\* pending still, or the call sent a STATE packet with its acknr.
C33_PendingAckKept ==
  \A e \in Endpoints :
    aborted[e] = "" =>
      \A t \in {rdpSocketIntervalAction(sock[e], conns[e], now)} :
        \A i \in 1 .. Len(conns[e]) : \A j \in 1 .. Len(t.conns) :
          (/\ conns[e][i].needSendAck = 1
           /\ t.conns[j].id = conns[e][i].id
           /\ t.conns[j].fail = ""
           /\ t.conns[j].needSendAck = 0)
            => AcksOf(t.conns[j], t.out) # {}

\* The indices of the send ring of c whose slot was transmitted once: the
\* acknowledgement of such a slot yields an RTT sample.
Sampling(c) ==
  {i \in 0 .. c.outbuf.mask :
     rbufferGet(c.outbuf, i) # NULL /\ rbufferGet(c.outbuf, i).transmissions = 1}

RtoWithinLimits(c) ==
  /\ c.nextRetransmitTimeout >= RDP_RETRANSMIT_TIMEOUT_MIN
  /\ c.nextRetransmitTimeout <= RDP_RETRANSMIT_TIMEOUT_MAX

\* C34: after any acknowledgement that yields an RTT sample, the timeout
\* derived from the estimator, nextRetransmitTimeout, lies between 200 ms and
\* 1000 ms: it does on every connection, and it does after ackPacket on any
\* slot transmitted once, the sample of 0 ms included.
C34_RtoWithinLimits ==
  \A e \in Endpoints : \A c \in AllConns(e) :
    /\ RtoWithinLimits(c)
    /\ c.fail = "" =>
         \A i \in Sampling(c) : \A c2 \in {ackPacket(c, i, now)} :
           /\ rbufferGet(c2.outbuf, i) = NULL
           /\ RtoWithinLimits(c2)
           /\ (now = rbufferGet(c.outbuf, i).sentTime /\ c.rtt = 0)
                => c2.nextRetransmitTimeout = RDP_RETRANSMIT_TIMEOUT_DEFAULT

\* An RTT sample left an estimate above the upper limit, and the timeout is
\* that limit; another slot of the connection, sent at this very time, would
\* yield a sample of 0 ms.
C34_EstimateAboveLimit ==
  \E e \in Endpoints : \E c \in AllConns(e) :
    /\ c.rtt > 0
    /\ c.rtt + 4 * c.rttVar > RDP_RETRANSMIT_TIMEOUT_MAX
    /\ c.nextRetransmitTimeout = RDP_RETRANSMIT_TIMEOUT_MAX
    /\ \E i \in Sampling(c) : rbufferGet(c.outbuf, i).sentTime = now

FlightLimitWithin(c) ==
  /\ c.flightWindowLimit >= getMaxPacketPayloadSize
  /\ c.flightWindowLimit <= RDP_WINDOW_SIZE_MAX

\* C35: in every reachable state of every connection, flightWindowLimit lies
\* between the payload of a full packet and 16 MiB: from rdpConnCreate on,
\* and after every halving and doubling by resizeWindow, those of the next
\* retransmission included.
C35_FlightLimitWithin ==
  \A e \in Endpoints : \A c \in AllConns(e) :
    /\ FlightLimitWithin(c)
    /\ (c.fail = "" /\ c.queue > 0
          /\ rbufferGet(c.outbuf, c.seqnr - c.queue) # NULL)
         => FlightLimitWithin(resizeWindow(c))

\* The window of A was at its upper limit when the run started; A wrote a
\* packet since and retransmitted it, which doubled the window once more,
\* and the window is at its upper limit.
C35_DoubledAtLimit ==
  \E c \in AllConns("A") :
    /\ c.flightWindowLimit = RDP_WINDOW_SIZE_MAX
    /\ c.queue > 0
    /\ rbufferGet(c.outbuf, c.seqnr - c.queue) # NULL
    /\ rbufferGet(c.outbuf, c.seqnr - c.queue).transmissions >= 2
    /\ c.oldestResent = c.seqnr - c.queue

\* The stream delivered when bytes 0 .. n - 1 written on connection id
\* were returned, in order.
WholeStream(id, n) == IF n = 0 THEN NoData ELSE << <<id, 0, n>> >>

\* C2: on a network that loses nothing, when every packet sent has arrived
\* and every byte A's writes accepted has been acknowledged, B has been
\* returned exactly the bytes written on A, in order.
C2_AckedIsDelivered ==
  reliable /\ net = <<>> =>
    \A ca \in Conns("A") : \A cb \in Conns("B") :
      PeerOf(ca, cb) /\ ca.state \in {CS_CONNECTED, CS_CONNECTED_FULL}
        /\ ca.queue = 0 /\ cb.outOfOrderCnt = 0 =>
          delivered[cb.id] = WholeStream(ca.id, written[ca.id])

\* The FIN that rdpConnClose queued on ca was sent.
FinSent(ca) ==
  /\ ca.state = CS_FIN_SENT
  /\ ca.queue > 0
  /\ rbufferGet(ca.outbuf, ca.seqnr - 1) # NULL
  /\ rbufferGet(ca.outbuf, ca.seqnr - 1).type = ST_FIN
  /\ rbufferGet(ca.outbuf, ca.seqnr - 1).transmissions > 0

\* C4: on a network that loses nothing, once B's rdpReadPoll has taken every
\* packet A sent, the FIN of A's rdpConnClose included, B's connection has
\* recorded the close (receivedFin), which its next calls report as a DATA
\* event of length 0 after the bytes written before it.
C4_FinRecorded ==
  reliable /\ net = <<>> =>
    \A ca \in Conns("A") : \A cb \in Conns("B") :
      PeerOf(ca, cb) /\ FinSent(ca) => cb.receivedFin = 1 \/ eofs[cb.id] > 0

\* C3: while a connection holds unacknowledged packets, its retransmission
\* deadline is at most RDP_RETRANSMIT_TIMEOUT_MAX after the last clock
\* snapshot of its socket, whenever the tick was called: a lost packet is
\* retransmitted by the first tick past a bounded delay.
C3_RetransmitBounded ==
  \A e \in Endpoints : \A c \in Conns(e) :
    c.state \in {CS_SYN_SENT, CS_CONNECTED, CS_CONNECTED_FULL, CS_FIN_SENT}
      /\ c.queue > 0 =>
        ~WLess(WOf(sock[e].mstime + RDP_RETRANSMIT_TIMEOUT_MAX),
               c.retransmitTicker)

====
